---------------------------- MODULE Spec2Model ----------------------------
(***************************************************************************)
(* Model of netip-ts: the value types Address, AddressPrefix and           *)
(* AddressPort, their text and binary codecs and their bit arithmetic.     *)
(*                                                                         *)
(* Representation.                                                         *)
(*   - a Uint8Array is a sequence of naturals in 0..255 (index 0 of the    *)
(*     code is index 1 here);                                              *)
(*   - a JavaScript string is a sequence of one-character strings, so      *)
(*     that the parsers and formatters work character by character;        *)
(*   - an Address is [bytes, zone]; zone = << >> stands for both           *)
(*     undefined and "", which no method of the code can tell apart        *)
(*     (getZone uses `zone || ""`, toString uses `if (this.zone)`);        *)
(*   - a call that may throw returns [ok, err, ...].                       *)
(***************************************************************************)
EXTENDS Integers, Sequences, FiniteSets, TLC

(***************************************************************************)
(* Characters and numbers                                                  *)
(***************************************************************************)
DecChars == <<"0", "1", "2", "3", "4", "5", "6", "7", "8", "9">>

LowerHexChars == <<"0", "1", "2", "3", "4", "5", "6", "7", "8", "9",
                   "a", "b", "c", "d", "e", "f">>

UpperHexChars == <<"0", "1", "2", "3", "4", "5", "6", "7", "8", "9",
                   "A", "B", "C", "D", "E", "F">>

IsDigit(c) == \E k \in 1..10 : DecChars[k] = c

DigitVal(c) == (CHOOSE k \in 1..10 : DecChars[k] = c) - 1

IsHexDigit(c) == \E k \in 1..16 : LowerHexChars[k] = c \/ UpperHexChars[k] = c

HexVal(c) == (CHOOSE k \in 1..16 : LowerHexChars[k] = c \/ UpperHexChars[k] = c) - 1

Min(a, b) == IF a < b THEN a ELSE b

RECURSIVE Pow2(_)
Pow2(n) == IF n <= 0 THEN 1 ELSE 2 * Pow2(n - 1)

\* s.substring(from) for 0 <= from
SubstringFrom(s, from) == SubSeq(s, from + 1, Len(s))

\* s.substring(from, to) for 0 <= from <= to
Substring(s, from, to) == SubSeq(s, from + 1, Min(to, Len(s)))

\* s.includes(c) for a one-character c
Includes(s, c) == \E k \in 1..Len(s) : s[k] = c

\* s.indexOf(c): 0-based index of the first occurrence, -1 if none
IndexOf(s, c) ==
  IF Includes(s, c)
    THEN (CHOOSE k \in 1..Len(s) : s[k] = c /\ \A j \in 1..(k - 1) : s[j] # c) - 1
    ELSE -1

\* s.lastIndexOf(c): 0-based index of the last occurrence, -1 if none
LastIndexOf(s, c) ==
  IF Includes(s, c)
    THEN (CHOOSE k \in 1..Len(s) : s[k] = c /\ \A j \in (k + 1)..Len(s) : s[j] # c) - 1
    ELSE -1

\* (s.match(/c/g) || []).length
CountChar(s, c) == Cardinality({k \in 1..Len(s) : s[k] = c})

\* s.split(c): the sequence of the parts between the separators
RECURSIVE Split(_, _)
Split(s, c) ==
  LET i == IndexOf(s, c)
  IN IF i = -1 THEN <<s>>
     ELSE <<SubSeq(s, 1, i)>> \o Split(SubstringFrom(s, i + 1), c)

\* parts.join(sep)
RECURSIVE Join(_, _)
Join(parts, sep) ==
  IF Len(parts) = 0 THEN << >>
  ELSE IF Len(parts) = 1 THEN parts[1]
  ELSE parts[1] \o sep \o Join(Tail(parts), sep)

\* String(n) for an integer n: decimal digits, '-' for negatives
RECURSIVE NatToDec(_)
NatToDec(n) ==
  IF n < 10 THEN <<DecChars[n + 1]>>
  ELSE NatToDec(n \div 10) \o <<DecChars[(n % 10) + 1]>>

IntToDec(n) == IF n < 0 THEN <<"-">> \o NatToDec(-n) ELSE NatToDec(n)

\* n.toString(16) for n >= 0: lowercase, no leading zeros
RECURSIVE NatToHex(_)
NatToHex(n) ==
  IF n < 16 THEN <<LowerHexChars[n + 1]>>
  ELSE NatToHex(n \div 16) \o <<LowerHexChars[(n % 16) + 1]>>

\* Values of parseInt above this cap are all rejected alike by every caller
\* (the largest accepted value is a port, 65535), so the digits are
\* accumulated up to the cap only.
ParseIntCap == 1000000

RECURSIVE ParseDigits(_, _, _)
ParseDigits(s, k, acc) ==
  IF k > Len(s) \/ ~IsDigit(s[k]) THEN acc
  ELSE ParseDigits(s, k + 1, Min(acc * 10 + DigitVal(s[k]), ParseIntCap))

RECURSIVE SkipWhiteSpace(_, _)
SkipWhiteSpace(s, k) ==
  LET \* StrWhiteSpaceChar: tab, line feed, vertical tab (U+000B), form feed,
      \* carriage return, space, U+00A0, U+1680 and U+FEFF.  The other space
      \* separators (U+2000..U+200A, U+202F, U+205F, U+3000) and the line
      \* terminators U+2028, U+2029 are skipped by parseInt as well but cannot
      \* be written in a string of this module
      white == {"\t", "\n", "", "\f", "\r", " ", " ", " ", "﻿"}
  IN IF k <= Len(s) /\ s[k] \in white THEN SkipWhiteSpace(s, k + 1) ELSE k

\* parseInt(s, 10): leading white space, an optional sign, then the longest
\* run of decimal digits; NaN when that run is empty.  parseInt of an
\* undefined argument is NaN as well.
parseInt(s) ==
  LET k0 == SkipWhiteSpace(s, 1)
      neg == k0 <= Len(s) /\ s[k0] = "-"
      k1 == IF k0 <= Len(s) /\ s[k0] \in {"-", "+"} THEN k0 + 1 ELSE k0
      v == ParseDigits(s, k1, 0)
  IN IF k1 > Len(s) \/ ~IsDigit(s[k1])
       THEN [nan |-> TRUE, val |-> 0]
       ELSE [nan |-> FALSE, val |-> IF neg THEN -v ELSE v]

\* b & (1 << bitIndex) on a byte
TestBit(b, bitIndex) ==
  IF (b \div Pow2(bitIndex)) % 2 = 1 THEN Pow2(bitIndex) ELSE 0

Zeros(n) == [k \in 1..n |-> 0]

Ok(v) == [ok |-> TRUE, err |-> "", val |-> v]

Err(msg) == [ok |-> FALSE, err |-> msg]

(***************************************************************************)
(* Address                                                                 *)
(***************************************************************************)
\* new Address(addressBytes, zone)
Address(bytes, zone) == [bytes |-> bytes, zone |-> zone]

\* new Address(new Uint8Array()): the invalid sentinel
InvalidAddress == Address(<< >>, << >>)

isIPv4(a) == Len(a.bytes) = 4

isIPv6(a) == Len(a.bytes) = 16

Address_isValid(a) == Len(a.bytes) = 4 \/ Len(a.bytes) = 16

bitLength(a) == IF isIPv4(a) THEN 32 ELSE IF isIPv6(a) THEN 128 ELSE 0

getZone(a) == a.zone

toByteArray(a) == a.bytes

isIPv4MappedIPv6(a) ==
  /\ Len(a.bytes) = 16
  /\ \A i \in 1..10 : a.bytes[i] = 0
  /\ a.bytes[11] = 255
  /\ a.bytes[12] = 255

\* x & y on bytes
BitAnd(x, y) ==
  LET Both(k) == IF TestBit(x, k) # 0 /\ TestBit(y, k) # 0 THEN Pow2(k) ELSE 0
  IN Both(7) + Both(6) + Both(5) + Both(4) + Both(3) + Both(2) + Both(1) + Both(0)

\* The loop over the bytes finds no non-zero byte (none at all in the
\* invalid sentinel)
isUnspecified(a) == \A k \in 1..Len(a.bytes) : a.bytes[k] = 0

isLoopback(a) ==
  IF isIPv4(a) THEN a.bytes[1] = 127
  ELSE IF isIPv6(a) THEN (\A k \in 1..15 : a.bytes[k] = 0) /\ a.bytes[16] = 1
  ELSE FALSE

isMulticast(a) ==
  IF isIPv4(a) THEN BitAnd(a.bytes[1], 240) = 224
  ELSE IF isIPv6(a) THEN a.bytes[1] = 255
  ELSE FALSE

isInterfaceLocalMulticast(a) ==
  IF ~isIPv6(a) THEN FALSE
  ELSE a.bytes[1] = 255 /\ BitAnd(a.bytes[2], 15) = 1

isLinkLocalMulticast(a) ==
  IF isIPv4(a) THEN a.bytes[1] = 224 /\ a.bytes[2] = 0 /\ a.bytes[3] = 0
  ELSE IF isIPv6(a) THEN a.bytes[1] = 255 /\ BitAnd(a.bytes[2], 15) = 2
  ELSE FALSE

isLinkLocalUnicast(a) ==
  IF isIPv4(a) THEN a.bytes[1] = 169 /\ a.bytes[2] = 254
  ELSE IF isIPv6(a) THEN a.bytes[1] = 254 /\ BitAnd(a.bytes[2], 192) = 128
  ELSE FALSE

isPrivate(a) ==
  IF isIPv4(a)
    THEN LET first == a.bytes[1]
             second == a.bytes[2]
         IN \/ first = 10
            \/ (first = 172 /\ second >= 16 /\ second <= 31)
            \/ (first = 192 /\ second = 168)
  ELSE IF isIPv6(a) THEN a.bytes[1] = 252 \/ a.bytes[1] = 253
  ELSE FALSE

isGlobalUnicast(a) ==
  IF isIPv4(a)
    THEN ~isPrivate(a) /\ ~isUnspecified(a) /\ ~isLoopback(a) /\ ~isMulticast(a)
  ELSE IF isIPv6(a)
    THEN /\ ~isUnspecified(a) /\ ~isLoopback(a) /\ ~isMulticast(a)
         /\ ~isLinkLocalUnicast(a)
  ELSE FALSE

withZone(a, zone) == IF ~isIPv6(a) THEN a ELSE Address(a.bytes, zone)

unmap(a) ==
  IF isIPv4MappedIPv6(a) THEN Address(SubSeq(a.bytes, 13, 16), << >>) ELSE a

\* Address.compare: -1, 0 or 1
RECURSIVE CompareFrom(_, _, _)
CompareFrom(x, y, i) ==
  IF i > Min(Len(x), Len(y))
    THEN IF Len(x) < Len(y) THEN -1 ELSE IF Len(x) > Len(y) THEN 1 ELSE 0
  ELSE IF x[i] < y[i] THEN -1
  ELSE IF x[i] > y[i] THEN 1
  ELSE CompareFrom(x, y, i + 1)

\* Mutant of compare: the operands are taken in the wrong order
compare_Swapped(a, other) == CompareFrom(other.bytes, a.bytes, 1)

compare(a, other) == CompareFrom(a.bytes, other.bytes, 1)

\* Mutant of NextFrom: a byte that overflows is not reset to 0
RECURSIVE NextFrom_NoReset(_, _)
NextFrom_NoReset(bytes, i) ==
  IF i < 1 THEN << >>
  ELSE IF bytes[i] < 255 THEN [bytes EXCEPT ![i] = bytes[i] + 1]
  ELSE NextFrom_NoReset(bytes, i - 1)

\* Address.next: increment with carry from the last byte; the invalid
\* sentinel when every byte was 255 (and for the empty byte array)
RECURSIVE NextFrom(_, _)
NextFrom(bytes, i) ==
  IF i < 1 THEN << >>
  ELSE IF bytes[i] < 255 THEN [bytes EXCEPT ![i] = bytes[i] + 1]
  ELSE NextFrom([bytes EXCEPT ![i] = 0], i - 1)

next(a) ==
  LET r == NextFrom(a.bytes, Len(a.bytes))
  IN IF r = << >> THEN InvalidAddress ELSE Address(r, a.zone)

\* Mutant of PreviousFrom: decrementing zero wraps around to the maximum
RECURSIVE PreviousFrom_Wrap(_, _)
PreviousFrom_Wrap(bytes, i) ==
  IF i < 1 THEN bytes
  ELSE IF bytes[i] > 0 THEN [bytes EXCEPT ![i] = bytes[i] - 1]
  ELSE PreviousFrom_Wrap([bytes EXCEPT ![i] = 255], i - 1)

\* Address.previous: decrement with borrow from the last byte; the invalid
\* sentinel when every byte was 0 (and for the empty byte array)
RECURSIVE PreviousFrom(_, _)
PreviousFrom(bytes, i) ==
  IF i < 1 THEN << >>
  ELSE IF bytes[i] > 0 THEN [bytes EXCEPT ![i] = bytes[i] - 1]
  ELSE PreviousFrom([bytes EXCEPT ![i] = 255], i - 1)

previous(a) ==
  LET r == PreviousFrom(a.bytes, Len(a.bytes))
  IN IF r = << >> THEN InvalidAddress ELSE Address(r, a.zone)

\* Mutant of MaskBit: bits beyond the mask length are inverted, not cleared
MaskBit_Toggle(b, byteIndex, bitIndex, bits) ==
  IF 8 * byteIndex + (7 - bitIndex) >= bits
    THEN Pow2(bitIndex) - TestBit(b, bitIndex)
    ELSE TestBit(b, bitIndex)

\* Mutant of MaskBit: the boundary bit `bits` itself is kept
MaskBit_OffByOne(b, byteIndex, bitIndex, bits) ==
  IF 8 * byteIndex + (7 - bitIndex) > bits THEN 0 ELSE TestBit(b, bitIndex)

\* The loop of Address.mask runs i over 0..totalBits-1 (0 = most significant
\* bit) and clears bit i of the address when i >= bits.  Iteration i touches
\* bit 7 - i % 8 of byte i / 8 only: MaskBit is what that iteration leaves of
\* the bit, MaskByte the byte left by the eight iterations on it.
MaskBit(b, byteIndex, bitIndex, bits) ==
  IF 8 * byteIndex + (7 - bitIndex) >= bits THEN 0 ELSE TestBit(b, bitIndex)

MaskByte(b, byteIndex, bits) ==
  MaskBit(b, byteIndex, 7, bits) + MaskBit(b, byteIndex, 6, bits)
    + MaskBit(b, byteIndex, 5, bits) + MaskBit(b, byteIndex, 4, bits)
    + MaskBit(b, byteIndex, 3, bits) + MaskBit(b, byteIndex, 2, bits)
    + MaskBit(b, byteIndex, 1, bits) + MaskBit(b, byteIndex, 0, bits)

MaskLoop(bytes, bits, totalBits) ==
  [k \in 1..Len(bytes) |->
     IF 8 * (k - 1) < totalBits THEN MaskByte(bytes[k], k - 1, bits) ELSE bytes[k]]

mask(a, bits) ==
  LET totalBits == bitLength(a)
  IN IF bits < 0 \/ bits > totalBits THEN Err("Invalid mask length")
     ELSE IF ~Address_isValid(a) THEN Ok(InvalidAddress)
     ELSE Ok(Address(MaskLoop(a.bytes, bits, totalBits), a.zone))

Address_marshalBinary(a) == a.bytes

\* Address.unmarshalBinary on target a: [ok, err, obj] with obj the target
\* after the call
Address_unmarshalBinary(a, buffer) ==
  IF Len(buffer) = 4 \/ Len(buffer) = 16
    THEN [ok |-> TRUE, err |-> "", obj |-> [a EXCEPT !.bytes = buffer]]
    ELSE [ok |-> FALSE, err |-> "Invalid binary address format.", obj |-> a]

(***************************************************************************)
(* Address: text codec                                                     *)
(***************************************************************************)
BytesToDotted(bytes) == Join([k \in 1..Len(bytes) |-> IntToDec(bytes[k])], <<".">>)

\* The match of /(^|:)0(:0)*(:|$)/ that starts at 1-based position i of s:
\* the 1-based position of its last character, or 0 when there is no match
\* at i.  zeroAt is the position of the "0" after (^|:).
RECURSIVE CountColonZero(_, _)
CountColonZero(s, k) ==
  IF k + 1 <= Len(s) /\ s[k] = ":" /\ s[k + 1] = "0"
    THEN 1 + CountColonZero(s, k + 2)
    ELSE 0

\* Greedy (:0)* with backtracking: the largest n <= most for which (:|$)
\* matches after n repetitions
RECURSIVE ZeroRunEnd(_, _, _)
ZeroRunEnd(s, zeroAt, n) ==
  LET e == zeroAt + 1 + 2 * n
  IN IF e > Len(s) THEN e - 1
     ELSE IF s[e] = ":" THEN e
     ELSE IF n = 0 THEN 0
     ELSE ZeroRunEnd(s, zeroAt, n - 1)

ZeroRunFrom(s, zeroAt) ==
  IF zeroAt <= Len(s) /\ s[zeroAt] = "0"
    THEN ZeroRunEnd(s, zeroAt, CountColonZero(s, zeroAt + 1))
    ELSE 0

ZeroRunMatchEnd(s, i) ==
  LET atStart == IF i = 1 THEN ZeroRunFrom(s, 1) ELSE 0
  IN IF atStart # 0 THEN atStart
     ELSE IF i <= Len(s) /\ s[i] = ":" THEN ZeroRunFrom(s, i + 1)
     ELSE 0

\* Mutant of ReplaceFirstZeroRun: the run is replaced by ":" instead of "::"
ReplaceFirstZeroRun_SingleColon(s) ==
  LET starts == {i \in 1..Len(s) : ZeroRunMatchEnd(s, i) # 0}
  IN IF starts = {} THEN s
     ELSE LET i == CHOOSE k \in starts : \A j \in starts : k <= j
              e == ZeroRunMatchEnd(s, i)
          IN SubSeq(s, 1, i - 1) \o <<":">> \o SubSeq(s, e + 1, Len(s))

\* Mutant of ReplaceFirstZeroRun: the last run is replaced, not the first
ReplaceFirstZeroRun_Last(s) ==
  LET starts == {i \in 1..Len(s) : ZeroRunMatchEnd(s, i) # 0}
  IN IF starts = {} THEN s
     ELSE LET i == CHOOSE k \in starts : \A j \in starts : j <= k
              e == ZeroRunMatchEnd(s, i)
          IN SubSeq(s, 1, i - 1) \o <<":", ":">> \o SubSeq(s, e + 1, Len(s))

\* str.replace(/(^|:)0(:0)*(:|$)/, "::"): the leftmost match only
ReplaceFirstZeroRun(s) ==
  LET starts == {i \in 1..Len(s) : ZeroRunMatchEnd(s, i) # 0}
  IN IF starts = {} THEN s
     ELSE LET i == CHOOSE k \in starts : \A j \in starts : k <= j
              e == ZeroRunMatchEnd(s, i)
          IN SubSeq(s, 1, i - 1) \o <<":", ":">> \o SubSeq(s, e + 1, Len(s))

Address_toString(a) ==
  IF isIPv4(a) THEN BytesToDotted(a.bytes)
  ELSE IF isIPv6(a) THEN
    LET parts == [k \in 1..8 |-> NatToHex(a.bytes[2 * k - 1] * 256 + a.bytes[2 * k])]
        compressed == ReplaceFirstZeroRun(Join(parts, <<":">>))
        address == IF isIPv4MappedIPv6(a)
                     THEN <<":", ":", "f", "f", "f", "f", ":">>
                            \o BytesToDotted(SubSeq(a.bytes, 13, 16))
                     ELSE compressed
    IN IF a.zone # << >> THEN address \o <<"%">> \o a.zone ELSE address
  ELSE <<"i", "n", "v", "a", "l", "i", "d", " ", "I", "P">>

\* The octet loop of parseIPv4Address over parts[i..4]
RECURSIVE ParseOctets(_, _, _)
ParseOctets(parts, i, bytes) ==
  IF i > 4 THEN Ok(bytes)
  ELSE LET num == parseInt(parts[i])
       IN IF num.nan \/ num.val < 0 \/ num.val > 255
            THEN Err("Invalid IPv4 address component")
            ELSE ParseOctets(parts, i + 1, Append(bytes, num.val))

parseIPv4Address(input) ==
  IF Includes(input, "%") THEN Err("Invalid IPv4 address")
  ELSE LET parts == Split(input, ".")
       IN IF Len(parts) # 4 THEN Err("Invalid IPv4 address")
          ELSE LET r == ParseOctets(parts, 1, << >>)
               IN IF r.ok THEN Ok(Address(r.val, << >>)) ELSE r

\* The octet loop of parseIPv4Fields over parts[i..4]
RECURSIVE ParseFields(_, _, _)
ParseFields(parts, i, bytes) ==
  IF i > 4 THEN Ok(bytes)
  ELSE LET part == parts[i]
           num == parseInt(part)
       IN IF Len(part) = 0 THEN Err("Empty octet in IPv4 address")
          ELSE IF Len(part) > 1 /\ part[1] = "0" THEN Err("Invalid octet in IPv4 address")
          ELSE IF num.nan \/ num.val < 0 \/ num.val > 255
            THEN Err("Invalid octet in IPv4 address")
          ELSE ParseFields(parts, i + 1, Append(bytes, num.val))

\* parseIPv4Fields(s, ip): the four bytes written into ip
parseIPv4Fields(s) ==
  LET parts == Split(s, ".")
  IN IF Len(parts) # 4 THEN Err("Invalid IPv4 address")
     ELSE ParseFields(parts, 1, << >>)

\* The inner for loop of parseIPv6Address: scans hex digits from index off
RECURSIVE HexScan(_, _, _)
HexScan(s, off, acc) ==
  IF off >= Len(s) \/ ~IsHexDigit(s[off + 1])
    THEN [ok |-> TRUE, err |-> "", off |-> off, acc |-> acc]
  ELSE LET acc2 == acc * 16 + HexVal(s[off + 1])
       IN IF off > 3 THEN Err("Each group must have 4 or fewer digits")
          ELSE IF acc2 > 65535 THEN Err("IPv6 field has value >= 2^16")
          ELSE HexScan(s, off + 1, acc2)

\* The code after the while loop of parseIPv6Address: the whole string must
\* be consumed, and the ellipsis is expanded to fill the 16 bytes
ExpandEllipsis(s, zoneIndex, ellipsis, ip, zone) ==
  IF Len(s) # 0 THEN Err("Trailing garbage after address")
  ELSE IF zoneIndex < 16 THEN
    IF ellipsis < 0 THEN Err("Address string too short")
    ELSE LET n == 16 - zoneIndex
         IN Ok(Address([k \in 1..16 |->
                          IF k - 1 < ellipsis THEN ip[k]
                          ELSE IF k - 1 < ellipsis + n THEN 0
                          ELSE ip[k - n]], zone))
  ELSE IF ellipsis >= 0 THEN Err("The :: must expand to at least one field of zeros")
  ELSE Ok(Address(ip, zone))

\* The while loop of parseIPv6Address, one iteration per call
RECURSIVE HextetLoop(_, _, _, _, _)
HextetLoop(s, zoneIndex, ellipsis, ip, zone) ==
  IF zoneIndex >= 16 THEN ExpandEllipsis(s, zoneIndex, ellipsis, ip, zone)
  ELSE
    LET h == HexScan(s, 0, 0)
    IN IF ~h.ok THEN h
       ELSE IF h.off = 0
         THEN Err("Each colon-separated field must have at least one digit")
       ELSE IF h.off < Len(s) /\ s[h.off + 1] = "." THEN
         IF ellipsis < 0 /\ zoneIndex # 12
           THEN Err("Embedded IPv4 address must replace the final 2 fields of the address")
         ELSE IF zoneIndex + 4 > 16
           THEN Err("Too many hex fields to fit an embedded IPv4 at the end of the address")
         ELSE LET f == parseIPv4Fields(s)
              IN IF ~f.ok THEN f
                 ELSE ExpandEllipsis(<< >>, zoneIndex + 4, ellipsis,
                        [k \in 1..16 |->
                           IF k - 1 >= zoneIndex /\ k - 1 < zoneIndex + 4
                             THEN f.val[k - zoneIndex] ELSE ip[k]],
                        zone)
       ELSE
         LET ip2 == [ip EXCEPT ![zoneIndex + 1] = h.acc \div 256,
                               ![zoneIndex + 2] = h.acc % 256]
             z2 == zoneIndex + 2
             s2 == SubstringFrom(s, h.off)
         IN IF Len(s2) = 0 THEN ExpandEllipsis(s2, z2, ellipsis, ip2, zone)
            ELSE IF s2[1] # ":" THEN Err("Unexpected character, expected colon")
            ELSE IF Len(s2) = 1 THEN Err("Colon must be followed by more characters")
            ELSE LET s3 == SubstringFrom(s2, 1)
                 IN IF s3[1] = ":" THEN
                      IF ellipsis >= 0 THEN Err("Multiple :: in address")
                      ELSE LET s4 == SubstringFrom(s3, 1)
                           IN IF Len(s4) = 0
                                THEN ExpandEllipsis(s4, z2, z2, ip2, zone)
                                ELSE HextetLoop(s4, z2, z2, ip2, zone)
                    ELSE HextetLoop(s3, z2, ellipsis, ip2, zone)

parseIPv6Address(inStr) ==
  LET zoneIndex == IndexOf(inStr, "%")
      zone == IF zoneIndex # -1 THEN SubstringFrom(inStr, zoneIndex + 1) ELSE << >>
      s == IF zoneIndex # -1 THEN Substring(inStr, 0, zoneIndex) ELSE inStr
  IN IF zoneIndex # -1 /\ zone = << >> THEN Err("Zone must be a non-empty string")
     ELSE IF Len(s) >= 2 /\ s[1] = ":" /\ s[2] = ":" THEN
       IF Len(s) = 2 THEN Ok(withZone(Address(Zeros(16), << >>), zone))
       ELSE HextetLoop(SubstringFrom(s, 2), 0, 0, Zeros(16), zone)
     ELSE HextetLoop(s, 0, -1, Zeros(16), zone)

parseAddress(input) ==
  IF Includes(input, ":") THEN parseIPv6Address(input)
  ELSE IF Includes(input, ".") THEN parseIPv4Address(input)
  ELSE Err("Invalid IP address format")

\* Address.unmarshalText on target a
Address_unmarshalText(a, text) ==
  LET addr == parseAddress(text)
  IN IF addr.ok THEN [ok |-> TRUE, err |-> "", obj |-> addr.val]
     ELSE [ok |-> FALSE, err |-> addr.err, obj |-> a]

(***************************************************************************)
(* AddressPrefix                                                           *)
(***************************************************************************)
\* Mutant of AddressPrefix: an out-of-range length is stored as given
AddressPrefix_KeepBits(address, bits) == [address |-> address, bits |-> bits]

\* new AddressPrefix(address, bits), also AddressPrefix.from
AddressPrefix(address, bits) ==
  [address |-> address,
   bits |-> IF bits < 0 \/ bits > bitLength(address) THEN -1 ELSE bits]

getBits(p) == p.bits

AddressPrefix_isValid(p) ==
  IF ~Address_isValid(p.address) THEN FALSE
  ELSE p.bits >= 0 /\ p.bits <= bitLength(p.address)

\* const [ipPart, bitsPart] = input.split("/"); bitsPart is undefined when
\* there is no "/", and `!bitsPart` holds for undefined and for ""
parsePrefix(input) ==
  LET parts == Split(input, "/")
      ipPart == parts[1]
  IN IF Len(parts) < 2 \/ parts[2] = << >> THEN Err("Invalid prefix format")
     ELSE LET bitsPart == parts[2]
              address == parseAddress(ipPart)
              bits == parseInt(bitsPart)
          IN IF ~address.ok THEN address
             ELSE IF getZone(address.val) # << >>
               THEN Err("IPv6 zones are not permitted in prefixes.")
             ELSE IF bits.nan \/ bits.val < 0 \/ bits.val > bitLength(address.val)
               THEN Err("Invalid prefix length")
             ELSE Ok(AddressPrefix(address.val, bits.val))

\* Mutant of ContainsLoop: the last bit of the prefix is not compared
ContainsLoop_OffByOne(prefixBytes, ipBytes, bitsToCheck) ==
  \A i \in 0..(bitsToCheck - 2) :
    LET byteIndex == i \div 8
        bitIndex == 7 - (i % 8)
    IN TestBit(prefixBytes[byteIndex + 1], bitIndex)
         = TestBit(ipBytes[byteIndex + 1], bitIndex)

\* The bit loop of contains returns false at the first bit i < bitsToCheck
\* (0 = most significant) on which the two byte arrays differ
ContainsLoop(prefixBytes, ipBytes, bitsToCheck) ==
  \A i \in 0..(bitsToCheck - 1) :
    LET byteIndex == i \div 8
        bitIndex == 7 - (i % 8)
    IN TestBit(prefixBytes[byteIndex + 1], bitIndex)
         = TestBit(ipBytes[byteIndex + 1], bitIndex)

contains(p, ip) ==
  IF ~AddressPrefix_isValid(p) \/ ~Address_isValid(ip) THEN FALSE
  ELSE IF bitLength(p.address) # bitLength(ip) THEN FALSE
  ELSE ContainsLoop(toByteArray(p.address), toByteArray(ip), p.bits)

AddressPrefix_toString(p) ==
  IF ~AddressPrefix_isValid(p) THEN << >>
  ELSE Address_toString(p.address) \o <<"/">> \o IntToDec(p.bits)

\* new Uint8Array([this.bits]) stores bits modulo 256
AddressPrefix_marshalBinary(p) ==
  IF ~AddressPrefix_isValid(p) THEN Err("Invalid Prefix cannot be marshaled.")
  ELSE Ok(Address_marshalBinary(p.address) \o <<p.bits % 256>>)

\* AddressPrefix.unmarshalBinary on target p: the fields are assigned before
\* the final validity check
AddressPrefix_unmarshalBinary(p, buffer) ==
  IF Len(buffer) < 5
    THEN [ok |-> FALSE, err |-> "Invalid binary data for Prefix.", obj |-> p]
  ELSE LET bits == buffer[Len(buffer)]
           ipBytes == SubSeq(buffer, 1, Len(buffer) - 1)
           address == Address_unmarshalBinary(InvalidAddress, ipBytes)
           q == [address |-> address.obj, bits |-> bits]
       IN IF ~address.ok THEN [ok |-> FALSE, err |-> address.err, obj |-> p]
          ELSE IF ~AddressPrefix_isValid(q)
            THEN [ok |-> FALSE, err |-> "Invalid Prefix data.", obj |-> q]
          ELSE [ok |-> TRUE, err |-> "", obj |-> q]

AddressPrefix_unmarshalText(p, text) ==
  LET assign(prefix) ==
        IF prefix.ok THEN [ok |-> TRUE, err |-> "", obj |-> prefix.val]
        ELSE [ok |-> FALSE, err |-> prefix.err, obj |-> p]
  IN assign(parsePrefix(text))

masked(p) ==
  IF ~AddressPrefix_isValid(p) THEN AddressPrefix(InvalidAddress, -1)
  ELSE AddressPrefix(mask(p.address, p.bits).val, p.bits)

\* Mutant of overlaps: both addresses are masked to the longer prefix length
overlaps_MaxBits(p, other) ==
  IF ~AddressPrefix_isValid(p) \/ ~AddressPrefix_isValid(other) THEN Ok(FALSE)
  ELSE IF bitLength(p.address) # bitLength(other.address) THEN Ok(FALSE)
  ELSE LET maxBits == IF p.bits > other.bits THEN p.bits ELSE other.bits
           thisMasked == mask(p.address, maxBits)
           otherMasked == mask(other.address, maxBits)
       IN IF ~thisMasked.ok THEN thisMasked
          ELSE IF ~otherMasked.ok THEN otherMasked
          ELSE Ok(compare(thisMasked.val, otherMasked.val) = 0)

\* Mutant of overlaps: both addresses are masked to the receiver's length
overlaps_ThisBits(p, other) ==
  IF ~AddressPrefix_isValid(p) \/ ~AddressPrefix_isValid(other) THEN Ok(FALSE)
  ELSE IF bitLength(p.address) # bitLength(other.address) THEN Ok(FALSE)
  ELSE LET thisMasked == mask(p.address, p.bits)
           otherMasked == mask(other.address, p.bits)
       IN IF ~thisMasked.ok THEN thisMasked
          ELSE IF ~otherMasked.ok THEN otherMasked
          ELSE Ok(compare(thisMasked.val, otherMasked.val) = 0)

\* Both mask calls are in range when the two prefixes are valid and of the
\* same family; the ok field records that neither threw
overlaps(p, other) ==
  IF ~AddressPrefix_isValid(p) \/ ~AddressPrefix_isValid(other) THEN Ok(FALSE)
  ELSE IF bitLength(p.address) # bitLength(other.address) THEN Ok(FALSE)
  ELSE LET minBits == Min(p.bits, other.bits)
           thisMasked == mask(p.address, minBits)
           otherMasked == mask(other.address, minBits)
       IN IF ~thisMasked.ok THEN thisMasked
          ELSE IF ~otherMasked.ok THEN otherMasked
          ELSE Ok(compare(thisMasked.val, otherMasked.val) = 0)

(***************************************************************************)
(* getRanges computes with BigInt.  An unbounded non-negative integer is   *)
(* modelled by its big-endian base-256 digits, so that no machine integer  *)
(* width limits the 128-bit sums.                                          *)
(***************************************************************************)
\* Mutant of MaxHostValue: the shift is one bit short
MaxHostValue_ShortShift(remainingBits, n) ==
  [k \in 1..n |->
     LET low == 8 * (n - k)
     IN IF remainingBits - 1 >= low + 8 THEN 255
        ELSE IF remainingBits - 1 > low THEN Pow2(remainingBits - 1 - low) - 1
        ELSE 0]

\* (1n << BigInt(remainingBits)) - 1n over n digits, remainingBits <= 8 * n
MaxHostValue(remainingBits, n) ==
  [k \in 1..n |->
     LET low == 8 * (n - k)
     IN IF remainingBits >= low + 8 THEN 255
        ELSE IF remainingBits > low THEN Pow2(remainingBits - low) - 1
        ELSE 0]

\* x + y for two n-digit numbers: n + 1 digits, the first being the carry
\* out of the n-digit width
RECURSIVE BigAddFrom(_, _, _, _)
BigAddFrom(x, y, k, carry) ==
  IF k < 1 THEN <<carry>>
  ELSE LET sum == x[k] + y[k] + carry
       IN BigAddFrom(x, y, k - 1, sum \div 256) \o <<sum % 256>>

BigAdd(x, y) == BigAddFrom(x, y, Len(x), 0)

\* The loop that writes value & 0xff from the last byte backwards: the low
\* n digits of the value
LowBytes(value, n) == SubSeq(value, Len(value) - n + 1, Len(value))

getRanges(p) ==
  IF ~AddressPrefix_isValid(p) THEN Err("Invalid AddressPrefix. Cannot compute range.")
  ELSE LET totalBits == bitLength(p.address)
           maskedAddress == mask(p.address, p.bits).val
           remainingBits == totalBits - p.bits
           addressBytes == toByteArray(maskedAddress)
           maxHostValue == MaxHostValue(remainingBits, Len(addressBytes))
           endAddressValue == BigAdd(addressBytes, maxHostValue)
           endBytes == LowBytes(endAddressValue, Len(addressBytes))
           endAddress == Address(endBytes, getZone(p.address))
       IN [ok |-> TRUE, err |-> "",
           from |-> Address_toString(maskedAddress),
           to |-> Address_toString(endAddress),
           carry |-> endAddressValue[1]]

(***************************************************************************)
(* AddressPort                                                             *)
(***************************************************************************)
\* new AddressPort(ip, port), also AddressPort.from
AddressPort(ip, port) == [ip |-> ip, port |-> port]

getPort(ap) == ap.port

AddressPort_isValid(ap) == Address_isValid(ap.ip)

parseAddrPort(input) ==
  IF ~Includes(input, ":") THEN Err("Invalid AddrPort format")
  ELSE
    LET bracketed == Len(input) >= 1 /\ input[1] = "["
        closingBracketIndex == IndexOf(input, "]")
        lastColonIndex == LastIndexOf(input, ":")
        ipPart == IF bracketed THEN Substring(input, 1, closingBracketIndex)
                  ELSE Substring(input, 0, lastColonIndex)
        portPart == IF bracketed THEN SubstringFrom(input, closingBracketIndex + 2)
                    ELSE SubstringFrom(input, lastColonIndex + 1)
        ip == parseAddress(ipPart)
        port == parseInt(portPart)
    IN IF bracketed /\ closingBracketIndex = -1 THEN Err("Invalid AddrPort format")
       ELSE IF ~bracketed /\ CountChar(input, ":") > 1 THEN Err("Invalid AddrPort format")
       ELSE IF ~ip.ok THEN ip
       ELSE IF port.nan \/ port.val < 0 \/ port.val > 65535
         THEN Err("Invalid port number")
       ELSE Ok(AddressPort(ip.val, port.val))

AddressPort_toString(ap) ==
  IF ~AddressPort_isValid(ap) THEN << >>
  ELSE LET ipStr == Address_toString(ap.ip)
       IN IF isIPv6(ap.ip) /\ ~isIPv4MappedIPv6(ap.ip)
            THEN <<"[">> \o ipStr \o <<"]", ":">> \o IntToDec(ap.port)
            ELSE ipStr \o <<":">> \o IntToDec(ap.port)

\* Mutant of AddressPort_marshalBinary: the port is written big-endian
AddressPort_marshalBinary_BigEndian(ap) ==
  Address_marshalBinary(ap.ip) \o <<(ap.port \div 256) % 256, ap.port % 256>>

\* port & 0xff, then (port >> 8) & 0xff
AddressPort_marshalBinary(ap) ==
  Address_marshalBinary(ap.ip) \o <<ap.port % 256, (ap.port \div 256) % 256>>

\* Mutant of AddressPort_unmarshalBinary: the port is read big-endian
AddressPort_unmarshalBinary_BigEndian(ap, buffer) ==
  IF Len(buffer) < 2
    THEN [ok |-> FALSE, err |-> "Invalid binary data for AddrPort.", obj |-> ap]
  ELSE LET port == buffer[Len(buffer) - 1] * 256 + buffer[Len(buffer)]
           ipBytes == SubSeq(buffer, 1, Len(buffer) - 2)
           ip == Address_unmarshalBinary(InvalidAddress, ipBytes)
       IN IF ~ip.ok THEN [ok |-> FALSE, err |-> ip.err, obj |-> [ap EXCEPT !.port = port]]
          ELSE [ok |-> TRUE, err |-> "", obj |-> AddressPort(ip.obj, port)]

\* AddressPort.unmarshalBinary on target ap: the port is assigned before the
\* address bytes are checked
AddressPort_unmarshalBinary(ap, buffer) ==
  IF Len(buffer) < 2
    THEN [ok |-> FALSE, err |-> "Invalid binary data for AddrPort.", obj |-> ap]
  ELSE LET port == buffer[Len(buffer)] * 256 + buffer[Len(buffer) - 1]
           ipBytes == SubSeq(buffer, 1, Len(buffer) - 2)
           ip == Address_unmarshalBinary(InvalidAddress, ipBytes)
       IN IF ~ip.ok THEN [ok |-> FALSE, err |-> ip.err, obj |-> [ap EXCEPT !.port = port]]
          ELSE [ok |-> TRUE, err |-> "", obj |-> AddressPort(ip.obj, port)]

AddressPort_unmarshalText(ap, text) ==
  LET assign(addrPort) ==
        IF addrPort.ok THEN [ok |-> TRUE, err |-> "", obj |-> addrPort.val]
        ELSE [ok |-> FALSE, err |-> addrPort.err, obj |-> ap]
  IN assign(parseAddrPort(text))

(***************************************************************************)
(* State.  A driver holds one Address, one AddressPrefix and one           *)
(* AddressPort object and calls the public operations on them; `last`      *)
(* records the last call (operation, receiver before the call, arguments,  *)
(* result) and `ops` counts the calls that replaced or changed an object.  *)
(* `heap` holds the byte arrays and Address objects by identity where       *)
(* sharing matters (SpecAlias); the other specifications leave it empty.   *)
(***************************************************************************)
VARIABLES addr, pfx, aport, last, ops, heap

vars == <<addr, pfx, aport, last, ops, heap>>

\* No array and no Address object allocated
EmptyHeap == [arrays |-> << >>, objs |-> << >>, prefix |-> [address |-> 0, bits |-> -1]]

\* Longest sequence of state-changing calls that is explored
MaxOps == 2

\* new AddressPrefix(new Address(new Uint8Array()), -1)
EmptyPrefix == AddressPrefix(InvalidAddress, -1)

\* new AddressPort(new Address(new Uint8Array()), 0)
EmptyPort == AddressPort(InvalidAddress, 0)

(***************************************************************************)
(* Inputs                                                                  *)
(***************************************************************************)
Zones == {<< >>, <<"e", "t", "h", "0">>, <<"%">>}

AddrTexts ==
  { <<"1", ".", "2", ".", "3", ".", "4">>, <<"0", ".", "0", ".", "0", ".", "0">>, <<"2", "5", "5", ".", "2", "5", "5", ".", "2", "5", "5", ".", "2", "5", "5">>, <<"0", "1", "0", ".", "1", ".", "2", ".", "3">>,
    <<":", ":">>, <<":", ":", "1">>, <<"f", "e", "8", "0", ":", ":", "1", "%", "e", "t", "h", "0">>, <<":", ":", "f", "f", "f", "f", ":", "1", ".", "2", ".", "3", ".", "4">>,
    <<":", ":", "f", "f", "f", "f", ":", "1", "0", "2", ":", "3", "0", "4", "%", "e", "t", "h", "0">>, <<"2", "0", "0", "1", ":", "d", "b", "8", ":", ":", "1">>, <<"1", ":", "0", ":", "0", ":", "2", ":", "0", ":", "0", ":", "0", ":", "3">>,
    <<"f", "f", "f", "f", ":", "f", "f", "f", "f", ":", "f", "f", "f", "f", ":", "f", "f", "f", "f", ":", "f", "f", "f", "f", ":", "f", "f", "f", "f", ":", "f", "f", "f", "f", ":", "f", "f", "f", "f">>,
    <<"1", ".", "2", ".", "3">>, <<"1", ":", ":", "2", ":", ":", "3">>, <<"f", "e", "8", "0", ":", ":", "1", "%">> }

MaskBits == {-1, 0, 1, 7, 8, 9, 31, 32, 33, 64, 127, 128, 129}

(***************************************************************************)
(* Spec: the life of an Address object under the public operations         *)
(***************************************************************************)
Init ==
  /\ addr = InvalidAddress
  /\ pfx = EmptyPrefix
  /\ aport = EmptyPort
  /\ last = [op |-> "new"]
  /\ ops = 0
  /\ heap = EmptyHeap

\* addr = Address.parseAddress(text)
ParseAddress(text) ==
  /\ ops < MaxOps
  /\ LET r == parseAddress(text)
     IN /\ addr' = IF r.ok THEN r.val ELSE addr
        /\ last' = [op |-> "parseAddress", src |-> addr, text |-> text, out |-> r]
  /\ ops' = ops + 1
  /\ UNCHANGED <<pfx, aport, heap>>

\* addr = addr.withZone(zone)
WithZone(zone) ==
  /\ ops < MaxOps
  /\ addr' = withZone(addr, zone)
  /\ last' = [op |-> "withZone", src |-> addr, zone |-> zone, out |-> withZone(addr, zone)]
  /\ ops' = ops + 1
  /\ UNCHANGED <<pfx, aport, heap>>

\* addr = addr.unmap()
Unmap ==
  /\ ops < MaxOps
  /\ addr' = unmap(addr)
  /\ last' = [op |-> "unmap", src |-> addr, out |-> unmap(addr)]
  /\ ops' = ops + 1
  /\ UNCHANGED <<pfx, aport, heap>>

\* addr = addr.mask(bits); the driver keeps addr when mask throws
Mask(bits) ==
  /\ ops < MaxOps
  /\ LET r == mask(addr, bits)
     IN /\ addr' = IF r.ok THEN r.val ELSE addr
        /\ last' = [op |-> "mask", src |-> addr, bits |-> bits, out |-> r]
  /\ ops' = ops + 1
  /\ UNCHANGED <<pfx, aport, heap>>

\* addr = addr.next()
NextAddr ==
  /\ ops < MaxOps
  /\ addr' = next(addr)
  /\ last' = [op |-> "next", src |-> addr, out |-> next(addr)]
  /\ ops' = ops + 1
  /\ UNCHANGED <<pfx, aport, heap>>

\* addr = addr.previous()
PreviousAddr ==
  /\ ops < MaxOps
  /\ addr' = previous(addr)
  /\ last' = [op |-> "previous", src |-> addr, out |-> previous(addr)]
  /\ ops' = ops + 1
  /\ UNCHANGED <<pfx, aport, heap>>

\* addr.unmarshalBinary(buffer)
UnmarshalBinary(buffer) ==
  /\ ops < MaxOps
  /\ LET r == Address_unmarshalBinary(addr, buffer)
     IN /\ addr' = r.obj
        /\ last' = [op |-> "Address.unmarshalBinary", src |-> addr,
                    buffer |-> buffer, out |-> r]
  /\ ops' = ops + 1
  /\ UNCHANGED <<pfx, aport, heap>>

\* addr.unmarshalText(text)
UnmarshalText(text) ==
  /\ ops < MaxOps
  /\ LET r == Address_unmarshalText(addr, text)
     IN /\ addr' = r.obj
        /\ last' = [op |-> "Address.unmarshalText", src |-> addr,
                    text |-> text, out |-> r]
  /\ ops' = ops + 1
  /\ UNCHANGED <<pfx, aport, heap>>

Next ==
  \/ \E text \in AddrTexts : ParseAddress(text)
  \/ \E zone \in Zones : WithZone(zone)
  \/ Unmap
  \/ \E bits \in MaskBits : Mask(bits)
  \/ NextAddr
  \/ PreviousAddr
  \/ \E buffer \in { <<1, 2, 3, 4>>, <<255, 255, 255, 255>>, Zeros(16),
                      <<0, 0, 0, 0, 0, 0, 0, 0, 0, 0, 255, 255, 10, 0, 0, 1>>,
                      <<1, 2, 3>>, << >> } : UnmarshalBinary(buffer)
  \/ \E text \in AddrTexts : UnmarshalText(text)

Spec == Init /\ [][Next]_vars

(***************************************************************************)
(* SpecCodec: the text and binary codecs applied to one value of each of   *)
(* the three types.  The value is built with the public constructors       *)
(* (new Address(bytes, zone), AddressPrefix.from, AddressPort.from).       *)
(***************************************************************************)
CodecAddrs ==
  LET PatternV6Bytes ==
        { [k \in 1..16 |-> IF k % 2 = 1 THEN h[(k + 1) \div 2] \div 256
        ELSE h[k \div 2] % 256] :
        h \in [1..8 -> {0, 2748}] }
      SpecialV6Bytes ==
        { <<0, 0, 0, 0, 0, 0, 0, 0, 0, 0, 255, 255, 1, 2, 3, 4>>,
        <<0, 0, 0, 0, 0, 0, 0, 0, 0, 0, 255, 255, 0, 0, 0, 0>>,
        <<0, 0, 0, 0, 0, 0, 0, 0, 0, 0, 255, 254, 1, 2, 3, 4>>,
        <<0, 0, 0, 0, 0, 0, 0, 1, 0, 0, 255, 255, 1, 2, 3, 4>>,
        <<254, 128, 0, 0, 0, 0, 0, 0, 0, 0, 0, 0, 0, 0, 0, 1>>,
        <<32, 1, 13, 184, 0, 0, 0, 0, 0, 0, 0, 0, 0, 0, 0, 1>>,
        <<0, 1, 0, 16, 1, 0, 16, 0, 0, 15, 0, 255, 15, 255, 255, 255>>,
        [k \in 1..16 |-> 255] }
  IN {Address(b, << >>) : b \in [1..4 -> {0, 9, 100, 255}]}
       \cup {Address(b, z) : b \in PatternV6Bytes \cup SpecialV6Bytes, z \in Zones}
       \cup {InvalidAddress}

PrefixAddrs ==
  { Address(<<192, 168, 1, 42>>, << >>),
    Address(<<10, 255, 0, 129>>, << >>),
    Address(<<255, 255, 255, 255>>, << >>),
    Address(<<32, 1, 13, 184, 0, 0, 0, 0, 0, 0, 0, 0, 0, 0, 0, 1>>, << >>),
    Address(<<254, 128, 0, 0, 0, 0, 0, 0, 0, 0, 0, 0, 0, 0, 0, 1>>, <<"e", "t", "h", "0">>),
    Address(<<0, 0, 0, 0, 0, 0, 0, 0, 0, 0, 255, 255, 1, 2, 3, 4>>, << >>),
    Address([k \in 1..16 |-> 255], << >>),
    Address(Zeros(16), << >>),
    InvalidAddress }

PrefixBits == {-1, 0, 1, 7, 8, 9, 23, 24, 25, 31, 32, 33, 64, 127, 128, 129}

InitCodec ==
  /\ \/ addr \in CodecAddrs /\ pfx = EmptyPrefix /\ aport = EmptyPort
     \/ /\ addr = InvalidAddress
        /\ pfx \in {AddressPrefix(a, b) : a \in PrefixAddrs, b \in PrefixBits}
        /\ aport = EmptyPort
     \/ /\ addr = InvalidAddress
        /\ pfx = EmptyPrefix
        /\ aport \in {AddressPort(a, p) : a \in PrefixAddrs,
                                          p \in {-1, 0, 80, 256, 65535, 65536, 70000}}
  /\ last = [op |-> "new"]
  /\ ops = 0
  /\ heap = EmptyHeap

\* new TextEncoder().encode(s) for the ASCII texts that toString produces:
\* one byte per character, its character code (low holds the characters with
\* codes 32..95, high those with codes 97..126)
TextEncoder_encode(s) ==
  LET low ==
        << " ", "!", "\"", "#", "$", "%", "&", "'", "(", ")", "*", "+",
           ",", "-", ".", "/", "0", "1", "2", "3", "4", "5", "6", "7",
           "8", "9", ":", ";", "<", "=", ">", "?", "@", "A", "B", "C",
           "D", "E", "F", "G", "H", "I", "J", "K", "L", "M", "N", "O",
           "P", "Q", "R", "S", "T", "U", "V", "W", "X", "Y", "Z", "[",
           "\\", "]", "^", "_" >>
      high ==
        << "a", "b", "c", "d", "e", "f", "g", "h", "i", "j", "k", "l",
           "m", "n", "o", "p", "q", "r", "s", "t", "u", "v", "w", "x",
           "y", "z", "{", "|", "}", "~" >>
      code(c) == IF \E k \in 1..Len(low) : low[k] = c
                   THEN 31 + (CHOOSE k \in 1..Len(low) : low[k] = c)
                   ELSE 96 + (CHOOSE k \in 1..Len(high) : high[k] = c)
  IN [k \in 1..Len(s) |-> code(s[k])]

\* new TextDecoder().decode(bytes) on the bytes TextEncoder produces for the
\* printable ASCII characters (32..126 without the grave accent, which no
\* text of this library contains)
TextDecoder_decode(bytes) ==
  LET low ==
        << " ", "!", "\"", "#", "$", "%", "&", "'", "(", ")", "*", "+",
           ",", "-", ".", "/", "0", "1", "2", "3", "4", "5", "6", "7",
           "8", "9", ":", ";", "<", "=", ">", "?", "@", "A", "B", "C",
           "D", "E", "F", "G", "H", "I", "J", "K", "L", "M", "N", "O",
           "P", "Q", "R", "S", "T", "U", "V", "W", "X", "Y", "Z", "[",
           "\\", "]", "^", "_" >>
      high ==
        << "a", "b", "c", "d", "e", "f", "g", "h", "i", "j", "k", "l",
           "m", "n", "o", "p", "q", "r", "s", "t", "u", "v", "w", "x",
           "y", "z", "{", "|", "}", "~" >>
      char(b) == IF b < 96 THEN low[b - 31] ELSE high[b - 96]
  IN [k \in 1..Len(bytes) |-> char(bytes[k])]

AddressPrefix_marshalText(p) ==
  IF ~AddressPrefix_isValid(p) THEN << >>
  ELSE TextEncoder_encode(AddressPrefix_toString(p))

AddressPort_marshalText(ap) ==
  IF ~AddressPort_isValid(ap) THEN << >>
  ELSE TextEncoder_encode(AddressPort_toString(ap))

\* Address.parseAddress(addr.toString())
AddressTextRoundTrip ==
  /\ last' = [op |-> "Address.textRoundTrip", src |-> addr,
              text |-> Address_toString(addr),
              out |-> parseAddress(Address_toString(addr))]
  /\ UNCHANGED <<addr, pfx, aport, ops, heap>>

\* fresh = new Address(new Uint8Array()); fresh.unmarshalBinary(addr.marshalBinary())
AddressBinaryRoundTrip ==
  /\ last' = [op |-> "Address.binaryRoundTrip", src |-> addr,
              buffer |-> Address_marshalBinary(addr),
              out |-> Address_unmarshalBinary(InvalidAddress, Address_marshalBinary(addr))]
  /\ UNCHANGED <<addr, pfx, aport, ops, heap>>

\* AddressPrefix.parsePrefix(pfx.toString()), and
\* fresh = new AddressPrefix(new Address(new Uint8Array()), -1);
\* fresh.unmarshalText(new TextDecoder().decode(pfx.marshalText()))
PrefixTextRoundTrip ==
  /\ last' = [op |-> "AddressPrefix.textRoundTrip", src |-> pfx,
              text |-> AddressPrefix_toString(pfx),
              out |-> parsePrefix(AddressPrefix_toString(pfx)),
              textData |-> AddressPrefix_marshalText(pfx),
              fresh |-> AddressPrefix_unmarshalText(EmptyPrefix,
                          TextDecoder_decode(AddressPrefix_marshalText(pfx)))]
  /\ UNCHANGED <<addr, pfx, aport, ops, heap>>

\* fresh = new AddressPrefix(new Address(new Uint8Array()), -1);
\* fresh.unmarshalBinary(pfx.marshalBinary())
PrefixBinaryRoundTrip ==
  /\ LET m == AddressPrefix_marshalBinary(pfx)
     IN last' = [op |-> "AddressPrefix.binaryRoundTrip", src |-> pfx,
                 buffer |-> m,
                 out |-> IF m.ok THEN AddressPrefix_unmarshalBinary(EmptyPrefix, m.val)
                         ELSE [ok |-> FALSE, err |-> m.err, obj |-> EmptyPrefix]]
  /\ UNCHANGED <<addr, pfx, aport, ops, heap>>

\* AddressPort.parseAddrPort(aport.toString()), and
\* fresh = new AddressPort(new Address(new Uint8Array()), 0);
\* fresh.unmarshalText(new TextDecoder().decode(aport.marshalText()))
PortTextRoundTrip ==
  /\ last' = [op |-> "AddressPort.textRoundTrip", src |-> aport,
              text |-> AddressPort_toString(aport),
              out |-> parseAddrPort(AddressPort_toString(aport)),
              textData |-> AddressPort_marshalText(aport),
              fresh |-> AddressPort_unmarshalText(EmptyPort,
                          TextDecoder_decode(AddressPort_marshalText(aport)))]
  /\ UNCHANGED <<addr, pfx, aport, ops, heap>>

\* fresh = new AddressPort(new Address(new Uint8Array()), 0);
\* fresh.unmarshalBinary(aport.marshalBinary())
PortBinaryRoundTrip ==
  /\ last' = [op |-> "AddressPort.binaryRoundTrip", src |-> aport,
              buffer |-> AddressPort_marshalBinary(aport),
              out |-> AddressPort_unmarshalBinary(EmptyPort, AddressPort_marshalBinary(aport))]
  /\ UNCHANGED <<addr, pfx, aport, ops, heap>>

\* Every serialising method called on the current address, prefix and
\* address-port; a call that returns normally is recorded as Ok(result)
Marshal ==
  /\ last' = [op |-> "marshal", addr |-> addr, pfx |-> pfx, aport |-> aport,
              addrString |-> Ok(Address_toString(addr)),
              addrBinary |-> Ok(Address_marshalBinary(addr)),
              pfxString |-> Ok(AddressPrefix_toString(pfx)),
              pfxText |-> Ok(AddressPrefix_marshalText(pfx)),
              pfxBinary |-> AddressPrefix_marshalBinary(pfx),
              pfxRanges |-> getRanges(pfx),
              portString |-> Ok(AddressPort_toString(aport)),
              portText |-> Ok(AddressPort_marshalText(aport)),
              portBinary |-> Ok(AddressPort_marshalBinary(aport))]
  /\ UNCHANGED <<addr, pfx, aport, ops, heap>>

\* aport.unmarshalBinary(buffer)
PortUnmarshalBinary(buffer) ==
  /\ LET r == AddressPort_unmarshalBinary(aport, buffer)
     IN /\ aport' = r.obj
        /\ last' = [op |-> "AddressPort.unmarshalBinary", buffer |-> buffer, out |-> r]
  /\ UNCHANGED <<addr, pfx, ops, heap>>

\* aport.unmarshalText(text)
PortUnmarshalText(text) ==
  /\ last' = [op |-> "AddressPort.unmarshalText", text |-> text,
              out |-> AddressPort_unmarshalText(aport, text)]
  /\ aport' = last'.out.obj
  /\ UNCHANGED <<addr, pfx, ops, heap>>

NextCodec ==
  \/ AddressTextRoundTrip
  \/ AddressBinaryRoundTrip
  \/ PrefixTextRoundTrip
  \/ PrefixBinaryRoundTrip
  \/ PortTextRoundTrip
  \/ PortBinaryRoundTrip
  \/ Marshal
  \/ \E buffer \in { <<1, 2, 3, 4, 187, 1>>, <<1, 2, 3, 1, 2>>, <<7>>,
                      Zeros(15) \o <<1, 80, 0>> } : PortUnmarshalBinary(buffer)
  \/ \E text \in { <<"[", ":", ":", "1", "]", ":", "4", "4", "3">>,
                    <<"1", ".", "2", ".", "3", ".", "4", ":", "8", "0">>,
                    <<"1", ".", "2", ".", "3", ".", "4", ":", "6", "5", "5", "3", "6">>,
                    <<":", ":", "1", ":", "8", "0">> } : PortUnmarshalText(text)

SpecCodec == InitCodec /\ [][NextCodec]_vars

(***************************************************************************)
(* Properties of the codecs (SpecCodec)                                    *)
(***************************************************************************)
\* C1: for every valid Address x (4 bytes, or 16 bytes with or without a
\* non-empty zone), parseAddress(x.toString()) succeeds and returns an
\* address with the same bytes and the same zone as x.
C1_AddressTextRoundTrip ==
  (/\ last.op = "Address.textRoundTrip"
   /\ \/ isIPv4(last.src) /\ getZone(last.src) = << >>
      \/ isIPv6(last.src))
  => /\ last.out.ok
     /\ toByteArray(last.out.val) = toByteArray(last.src)
     /\ getZone(last.out.val) = getZone(last.src)

\* A zoned IPv6 address whose text has a "::" in the middle went through the
\* round trip
C1_Witness ==
  /\ last.op = "Address.textRoundTrip"
  /\ isIPv6(last.src)
  /\ getZone(last.src) = <<"e", "t", "h", "0">>
  /\ \E k \in 2..(Len(last.text) - 2) :
       last.text[k] = ":" /\ last.text[k + 1] = ":" /\ last.text[k + 2] # "%"
  /\ last.out.ok
  /\ last.out.val = last.src

\* C2: for every valid AddressPrefix p, parsePrefix(p.toString()) succeeds
\* and returns a prefix with the same address bytes, zone and bits as p.
C2_PrefixTextRoundTrip ==
  (/\ last.op = "AddressPrefix.textRoundTrip"
   /\ AddressPrefix_isValid(last.src))
  => /\ last.out.ok
     /\ toByteArray(last.out.val.address) = toByteArray(last.src.address)
     /\ getZone(last.out.val.address) = getZone(last.src.address)
     /\ getBits(last.out.val) = getBits(last.src)

\* C3: for every valid AddressPort x with port in 0..65535,
\* parseAddrPort(x.toString()) succeeds and returns an AddressPort with the
\* same address bytes, zone and port as x.
C3_PortTextRoundTrip ==
  (/\ last.op = "AddressPort.textRoundTrip"
   /\ AddressPort_isValid(last.src)
   /\ getPort(last.src) \in 0..65535)
  => /\ last.out.ok
     /\ toByteArray(last.out.val.ip) = toByteArray(last.src.ip)
     /\ getZone(last.out.val.ip) = getZone(last.src.ip)
     /\ getPort(last.out.val) = getPort(last.src)

\* C4 as stated: for every valid zone-less Address, AddressPrefix or
\* AddressPort x, unmarshalBinary of x.marshalBinary() into a fresh empty
\* instance succeeds and the result prints as x does.
C4_Original ==
  /\ (last.op = "Address.binaryRoundTrip"
      /\ Address_isValid(last.src) /\ getZone(last.src) = << >>)
     => last.out.ok /\ Address_toString(last.out.obj) = Address_toString(last.src)
  /\ (last.op = "AddressPrefix.binaryRoundTrip"
      /\ AddressPrefix_isValid(last.src) /\ getZone(last.src.address) = << >>)
     => last.out.ok
          /\ AddressPrefix_toString(last.out.obj) = AddressPrefix_toString(last.src)
  /\ (last.op = "AddressPort.binaryRoundTrip"
      /\ AddressPort_isValid(last.src) /\ getZone(last.src.ip) = << >>)
     => last.out.ok
          /\ AddressPort_toString(last.out.obj) = AddressPort_toString(last.src)

\* C4 amended: the same, for an AddressPort only when its port is in
\* 0..65535 (the binary form holds the port in two bytes).
C4_BinaryRoundTrip ==
  /\ (last.op = "Address.binaryRoundTrip"
      /\ Address_isValid(last.src) /\ getZone(last.src) = << >>)
     => last.out.ok /\ Address_toString(last.out.obj) = Address_toString(last.src)
  /\ (last.op = "AddressPrefix.binaryRoundTrip"
      /\ AddressPrefix_isValid(last.src) /\ getZone(last.src.address) = << >>)
     => last.out.ok
          /\ AddressPrefix_toString(last.out.obj) = AddressPrefix_toString(last.src)
  /\ (last.op = "AddressPort.binaryRoundTrip"
      /\ AddressPort_isValid(last.src) /\ getZone(last.src.ip) = << >>
      /\ getPort(last.src) \in 0..65535)
     => last.out.ok
          /\ AddressPort_toString(last.out.obj) = AddressPort_toString(last.src)

\* An IPv6 AddressPort whose port has two different bytes went through the
\* binary round trip
C4_Witness ==
  /\ last.op = "AddressPort.binaryRoundTrip"
  /\ isIPv6(last.src.ip)
  /\ getZone(last.src.ip) = << >>
  /\ getPort(last.src) = 256
  /\ last.buffer[17] = 0 /\ last.buffer[18] = 1
  /\ last.out.ok
  /\ last.out.obj = last.src

(***************************************************************************)
(* Properties of the Address object (Spec)                                 *)
(***************************************************************************)
\* C5: over every sequence of public operations starting from addresses
\* returned by parseAddress, no Address whose byte length is 4 reports a
\* non-empty zone through getZone().
C5_NoZoneOnIPv4 == isIPv4(addr) => getZone(addr) = << >>

\* C10: for a valid address a of bit length L and 0 <= bits <= L, a.mask(bits)
\* returns an address of the same family and zone whose top `bits` bits equal
\* those of a and whose remaining bits are zero; for bits < 0 or bits > L it
\* fails with an invalid-mask-length error and returns nothing.
C10_Mask ==
  (last.op = "mask" /\ Address_isValid(last.src))
  => LET L == 8 * Len(toByteArray(last.src))
         Bit(bytes, i) == (bytes[(i \div 8) + 1] \div Pow2(7 - (i % 8))) % 2
     IN IF last.bits >= 0 /\ last.bits <= L
          THEN /\ last.out.ok
               /\ Len(toByteArray(last.out.val)) = Len(toByteArray(last.src))
               /\ getZone(last.out.val) = getZone(last.src)
               /\ \A i \in 0..(L - 1) :
                    Bit(toByteArray(last.out.val), i)
                      = IF i < last.bits THEN Bit(toByteArray(last.src), i) ELSE 0
               /\ addr = last.out.val
          ELSE /\ ~last.out.ok
               /\ last.out.err = "Invalid mask length"
               /\ DOMAIN last.out = {"ok", "err"}
               /\ addr = last.src

\* An address with every bit set was masked inside a byte
C10_Witness ==
  /\ last.op = "mask"
  /\ toByteArray(last.src) = <<255, 255, 255, 255>>
  /\ last.bits = 9
  /\ last.out.ok
  /\ toByteArray(last.out.val) = <<255, 128, 0, 0>>

(***************************************************************************)
(* SpecPrefix: the network arithmetic of one AddressPrefix object          *)
(***************************************************************************)
\* A 4-byte address that kept the zone of the IPv6 address it was decoded
\* over (see C5)
StaleZoneAddress == Address(<<1, 2, 3, 4>>, <<"e", "t", "h", "0">>)

\* The address a with bit k inverted (a itself when it has no bit k)
FlipBit(a, k) ==
  IF k >= bitLength(a) THEN a
  ELSE LET byteIndex == k \div 8
           bitIndex == 7 - (k % 8)
           b == a.bytes[byteIndex + 1]
       IN Address([a.bytes EXCEPT ![byteIndex + 1] =
                     IF TestBit(b, bitIndex) = 0 THEN b + Pow2(bitIndex)
                     ELSE b - Pow2(bitIndex)],
                  a.zone)

\* Arguments of contains for the receiver p
ContainsArgs(p) == PrefixAddrs \cup {p.address} \cup {FlipBit(p.address, k) : k \in {0, 7, 8, 23, 24, 31, 64, 127}}

\* Arguments of overlaps for the receiver p: prefixes over its own address,
\* over addresses differing from it in one bit, over one address of each
\* family and over the invalid address
OverlapsArgs(p) ==
  {AddressPrefix(a, b) :
     a \in {p.address, InvalidAddress, Address(<<192, 168, 1, 42>>, << >>),
            Address(Zeros(15) \o <<1>>, << >>)}
          \cup {FlipBit(p.address, k) : k \in {7, 23, 127}},
     b \in {-1, 0, 8, 24, 64, 128}}

InitPrefix ==
  /\ addr = InvalidAddress
  /\ pfx \in {AddressPrefix(a, b) : a \in PrefixAddrs \cup {StaleZoneAddress}, b \in PrefixBits}
  /\ aport = EmptyPort
  /\ last = [op |-> "new"]
  /\ ops = 0
  /\ heap = EmptyHeap

\* pfx.contains(ip)
Contains(ip) ==
  /\ last' = [op |-> "contains", src |-> pfx, ip |-> ip, out |-> contains(pfx, ip)]
  /\ UNCHANGED <<addr, pfx, aport, ops, heap>>

\* pfx.overlaps(other) and other.overlaps(pfx)
Overlaps(other) ==
  /\ last' = [op |-> "overlaps", src |-> pfx, other |-> other,
              out |-> overlaps(pfx, other), rev |-> overlaps(other, pfx)]
  /\ UNCHANGED <<addr, pfx, aport, ops, heap>>

\* pfx.getRanges()
GetRanges ==
  /\ last' = [op |-> "getRanges", src |-> pfx, out |-> getRanges(pfx)]
  /\ UNCHANGED <<addr, pfx, aport, ops, heap>>

\* pfx.unmarshalBinary(buffer)
PrefixUnmarshalBinary(buffer) ==
  /\ LET r == AddressPrefix_unmarshalBinary(pfx, buffer)
     IN /\ pfx' = r.obj
        /\ last' = [op |-> "AddressPrefix.unmarshalBinary", buffer |-> buffer, out |-> r]
  /\ UNCHANGED <<addr, aport, ops, heap>>

\* The addresses contains() is asked about next to the range: the usual
\* arguments, the two ends of the range and their outer neighbours
RangeArgs(p) ==
  LET r == getRanges(p)
      first == parseAddress(r.from).val
      end == parseAddress(r.to).val
      edges == IF r.ok THEN {first, end, previous(first), next(end)} ELSE {}
  IN ContainsArgs(p) \cup {Address(e.bytes, << >>) : e \in edges}

\* pfx.contains(ip) next to first.compare(ip) and ip.compare(last), first and
\* last parsed from pfx.getRanges(); the range is not computed when the prefix
\* is invalid (getRanges throws).  The question is put once per state of the
\* prefix, right after it was built or decoded: no query changes the prefix
ContainsInRange(ip) ==
  /\ last.op \in {"new", "AddressPrefix.unmarshalBinary", "AddressPrefix.unmarshalText"}
  /\ LET r == getRanges(pfx)
         first == parseAddress(r.from)
         end == parseAddress(r.to)
     IN last' = IF r.ok
                  THEN [op |-> "contains+getRanges", src |-> pfx, ip |-> ip,
                        out |-> contains(pfx, ip), ranges |-> r,
                        first |-> first, end |-> end,
                        lower |-> IF first.ok THEN compare(first.val, ip) ELSE 2,
                        upper |-> IF end.ok THEN compare(ip, end.val) ELSE 2]
                  ELSE [op |-> "contains+getRanges", src |-> pfx, ip |-> ip,
                        out |-> contains(pfx, ip), ranges |-> r]
  /\ UNCHANGED <<addr, pfx, aport, ops, heap>>

\* pfx.unmarshalText(text)
PrefixUnmarshalText(text) ==
  /\ last' = [op |-> "AddressPrefix.unmarshalText", text |-> text,
              out |-> AddressPrefix_unmarshalText(pfx, text)]
  /\ pfx' = last'.out.obj
  /\ UNCHANGED <<addr, aport, ops, heap>>

NextPrefix ==
  \/ \E ip \in ContainsArgs(pfx) : Contains(ip)
  \/ \E other \in OverlapsArgs(pfx) : Overlaps(other)
  \/ GetRanges
  \/ \E ip \in RangeArgs(pfx) : ContainsInRange(ip)
  \/ \E buffer \in { <<10, 0, 0, 0, 8>>, <<1, 2, 3, 4, 200>>, <<1, 2, 3>>, <<1, 2, 3, 4, 5, 6>>, Zeros(16) \o <<64>> } : PrefixUnmarshalBinary(buffer)
  \/ \E text \in { <<"1", "0", ".", "0", ".", "0", ".", "0", "/", "8">>, <<"2", "0", "0", "1", ":", "d", "b", "8", ":", ":", "/", "3", "2">>,
                    <<"1", ".", "2", ".", "3", ".", "4", "/", "3", "3">>, <<"f", "e", "8", "0", ":", ":", "1", "%", "e", "t", "h", "0", "/", "6", "4">>,
                    <<"1", ".", "2", ".", "3", ".", "4", "/", "\f", "2", "4">> } : PrefixUnmarshalText(text)

SpecPrefix == InitPrefix /\ [][NextPrefix]_vars

(***************************************************************************)
(* Properties of the network arithmetic (SpecPrefix)                       *)
(***************************************************************************)
\* C6: contains(ip) is true if and only if the prefix is valid, ip is valid,
\* both have the same bit length, and the top `bits` bits of the prefix
\* address and of ip are equal; a prefix built from ip with
\* bits = bitLength(ip) contains ip, and a prefix never contains an address
\* of the other family.
C6_Contains ==
  last.op = "contains"
  => LET p == last.src
         ip == last.ip
         pb == toByteArray(p.address)
         ib == toByteArray(ip)
         \* number of prefix bits that fall into byte k (1-based)
         InByte(k) == IF p.bits >= 8 * k THEN 8
                      ELSE IF p.bits <= 8 * (k - 1) THEN 0
                      ELSE p.bits - 8 * (k - 1)
         SameTop == \A k \in 1..Len(pb) :
                      pb[k] \div Pow2(8 - InByte(k)) = ib[k] \div Pow2(8 - InByte(k))
     IN /\ last.out = (/\ AddressPrefix_isValid(p)
                       /\ Address_isValid(ip)
                       /\ Len(pb) = Len(ib)
                       /\ SameTop)
        /\ (Address_isValid(ip) /\ pb = ib /\ p.bits = 8 * Len(ib)) => last.out
        /\ Len(pb) # Len(ib) => ~last.out

\* A prefix that ends inside a byte contains an address that differs from
\* its own in the host bits
C6_Witness ==
  /\ last.op = "contains"
  /\ last.out
  /\ getBits(last.src) = 25
  /\ toByteArray(last.ip) # toByteArray(last.src.address)

\* C7: for two valid prefixes a and b of the same family, a.overlaps(b) is
\* true if and only if some address ip has a.contains(ip) and b.contains(ip);
\* for different families or an invalid prefix, overlaps is false.
C7_OverlapsIffCommonAddress ==
  last.op = "overlaps"
  => LET a == last.src
         b == last.other
         candidates == ContainsArgs(a) \cup ContainsArgs(b)
     IN /\ last.out.ok
        /\ IF /\ AddressPrefix_isValid(a)
              /\ AddressPrefix_isValid(b)
              /\ bitLength(a.address) = bitLength(b.address)
             THEN last.out.val = (\E ip \in candidates : contains(a, ip) /\ contains(b, ip))
             ELSE last.out.val = FALSE

\* Two valid prefixes of different lengths and different addresses overlap
C7_Witness ==
  /\ last.op = "overlaps"
  /\ last.out.ok /\ last.out.val
  /\ getBits(last.src) > getBits(last.other)
  /\ getBits(last.other) > 0
  /\ toByteArray(last.src.address) # toByteArray(last.other.address)

\* C8: for any two AddressPrefix values a and b (valid or invalid, same or
\* different family), a.overlaps(b) equals b.overlaps(a) and neither call
\* fails.
C8_OverlapsSymmetric ==
  last.op = "overlaps"
  => /\ last.out.ok
     /\ last.rev.ok
     /\ last.out.val = last.rev.val

\* A shorter prefix overlaps a longer one whose address differs from its own
\* beyond the shorter length, in both directions
C8_Witness ==
  /\ last.op = "overlaps"
  /\ getBits(last.src) = 8
  /\ getBits(last.other) = 24
  /\ toByteArray(last.src.address) # toByteArray(mask(last.other.address, 24).val)
  /\ last.out.ok /\ last.out.val
  /\ last.rev.ok /\ last.rev.val

\* C9: for every valid prefix p of width L and length bits, getRanges()
\* returns from = text of the address with its low L - bits bits cleared and
\* to = text of the address with those bits all set, the sum having no carry
\* out of L bits; both endpoints carry the zone of the source address; on an
\* invalid prefix getRanges() fails.
C9_GetRanges ==
  last.op = "getRanges"
  => LET p == last.src
         pb == toByteArray(p.address)
         n == Len(pb)
         \* number of host bits that fall into byte k (1-based)
         HostInByte(k) == LET h == 8 * n - p.bits - 8 * (n - k)
                          IN IF h < 0 THEN 0 ELSE IF h > 8 THEN 8 ELSE h
         first == [k \in 1..n |-> (pb[k] \div Pow2(HostInByte(k))) * Pow2(HostInByte(k))]
         lastAddr == [k \in 1..n |-> first[k] + Pow2(HostInByte(k)) - 1]
     IN IF AddressPrefix_isValid(p)
          THEN /\ last.out.ok
               /\ last.out.from = Address_toString(Address(first, getZone(p.address)))
               /\ last.out.to = Address_toString(Address(lastAddr, getZone(p.address)))
               /\ last.out.carry = 0
          ELSE ~last.out.ok

\* The range of a zoned IPv6 prefix of length 0 spans the whole 128 bits
C9_Witness ==
  /\ last.op = "getRanges"
  /\ isIPv6(last.src.address)
  /\ getBits(last.src) = 0
  /\ getZone(last.src.address) = <<"e", "t", "h", "0">>
  /\ last.out.ok
  /\ last.out.from = <<":", ":", "%", "e", "t", "h", "0">>
  /\ last.out.to = <<"f", "f", "f", "f", ":", "f", "f", "f", "f", ":", "f", "f", "f", "f", ":", "f", "f", "f", "f", ":", "f", "f", "f", "f", ":", "f", "f", "f", "f", ":", "f", "f", "f", "f", ":", "f", "f", "f", "f", "%", "e", "t", "h", "0">>

(***************************************************************************)
(* SpecValue: the value operations of one Address built with the public    *)
(* constructor new Address(bytes, zone)                                    *)
(***************************************************************************)
ValueAddrs ==
  LET ValueV4Bytes ==
        { <<0, 0, 0, 0>>, <<0, 0, 0, 1>>, <<0, 0, 0, 255>>, <<0, 0, 1, 0>>,
        <<0, 255, 255, 255>>, <<1, 255, 255, 255>>, <<128, 0, 0, 0>>,
        <<255, 255, 255, 254>>, <<255, 255, 255, 255>>,
        <<8, 8, 8, 8>>, <<10, 1, 2, 3>>, <<127, 0, 0, 1>>, <<169, 254, 1, 1>>,
        <<172, 15, 0, 1>>, <<172, 16, 0, 1>>, <<172, 31, 0, 1>>, <<172, 32, 0, 1>>,
        <<192, 167, 1, 1>>, <<192, 168, 1, 42>>, <<224, 0, 0, 1>>, <<239, 1, 1, 1>>,
        <<240, 0, 0, 1>> }
      ValueV6Bytes ==
        { Zeros(16), Zeros(15) \o <<1>>, Zeros(15) \o <<2>>, Zeros(15) \o <<255>>,
        Zeros(14) \o <<1, 0>>, Zeros(14) \o <<255, 255>>,
        Zeros(10) \o <<255, 255, 1, 2, 3, 4>>,
        Zeros(10) \o <<255, 255, 255, 255, 255, 255>>,
        <<1>> \o Zeros(15), <<0, 255>> \o [k \in 1..14 |-> 255],
        <<32, 1, 13, 184>> \o Zeros(11) \o <<1>>,
        <<254, 128>> \o Zeros(13) \o <<1>>, <<254, 191>> \o Zeros(13) \o <<1>>,
        <<254, 192>> \o Zeros(13) \o <<1>>,
        <<252, 0>> \o Zeros(13) \o <<1>>, <<253, 0>> \o Zeros(13) \o <<1>>,
        <<255, 1>> \o Zeros(13) \o <<1>>, <<255, 2>> \o Zeros(13) \o <<1>>,
        [k \in 1..15 |-> 255] \o <<254>>, [k \in 1..16 |-> 255] }
      \* Byte arrays of a length that is neither 4 nor 16
      ValueOtherBytes == { << >>, <<1, 2, 3>>, <<0, 0, 0, 0, 0>>, <<255, 255, 255, 255, 255>> }
  IN {Address(b, << >>) : b \in ValueV4Bytes \cup ValueV6Bytes \cup ValueOtherBytes}
       \cup {Address(b, <<"e", "t", "h", "0">>) :
               b \in { Zeros(16), <<254, 128>> \o Zeros(13) \o <<1>>,
                       Zeros(14) \o <<255, 255>>, [k \in 1..16 |-> 255] }}
       \* the result of Address.parseAddress("::%/x"): a zone that holds a '/'
       \cup {Address(Zeros(16), <<"/", "x">>)}
       \cup {StaleZoneAddress}

InitValue ==
  /\ addr \in ValueAddrs
  /\ pfx = EmptyPrefix
  /\ aport = EmptyPort
  /\ last = [op |-> "new"]
  /\ ops = 0
  /\ heap = EmptyHeap

\* addr.mask(bits).mask(bits); the second call is not made when the first
\* one throws
MaskTwice(bits) ==
  /\ LET once == mask(addr, bits)
     IN last' = [op |-> "mask.mask", src |-> addr, bits |-> bits, once |-> once,
                 out |-> IF once.ok THEN mask(once.val, bits) ELSE once]
  /\ UNCHANGED <<addr, pfx, aport, ops, heap>>

\* AddressPrefix.from(addr, bits).masked().masked()
MaskedTwice(bits) ==
  /\ LET p == AddressPrefix(addr, bits)
     IN last' = [op |-> "masked.masked", src |-> p, once |-> masked(p),
                 out |-> masked(masked(p))]
  /\ UNCHANGED <<addr, pfx, aport, ops, heap>>

\* addr.previous().next()
PreviousNext ==
  /\ last' = [op |-> "previous.next", src |-> addr, once |-> previous(addr),
              out |-> next(previous(addr))]
  /\ UNCHANGED <<addr, pfx, aport, ops, heap>>

\* addr.next().previous()
NextPrevious ==
  /\ last' = [op |-> "next.previous", src |-> addr, once |-> next(addr),
              out |-> previous(next(addr))]
  /\ UNCHANGED <<addr, pfx, aport, ops, heap>>

\* addr.compare(other)
Compare(other) ==
  /\ last' = [op |-> "compare", src |-> addr, other |-> other,
              out |-> compare(addr, other)]
  /\ UNCHANGED <<addr, pfx, aport, ops, heap>>

\* The classification predicates of addr
Classify ==
  /\ last' = [op |-> "classify", src |-> addr,
              isUnspecified |-> isUnspecified(addr),
              isLoopback |-> isLoopback(addr),
              isMulticast |-> isMulticast(addr),
              isLinkLocalUnicast |-> isLinkLocalUnicast(addr),
              isPrivate |-> isPrivate(addr),
              isGlobalUnicast |-> isGlobalUnicast(addr),
              isLinkLocalMulticast |-> isLinkLocalMulticast(addr),
              isInterfaceLocalMulticast |-> isInterfaceLocalMulticast(addr),
              isIPv4MappedIPv6 |-> isIPv4MappedIPv6(addr)]
  /\ UNCHANGED <<addr, pfx, aport, ops, heap>>

\* AddressPrefix.from(addr, bits) and
\* AddressPrefix.parsePrefix(addr.toString() + "/" + bits)
FromAndParsePrefix(bits) ==
  /\ LET text == Address_toString(addr) \o <<"/">> \o IntToDec(bits)
     IN last' = [op |-> "from+parsePrefix", src |-> addr, bits |-> bits,
                 made |-> AddressPrefix(addr, bits), text |-> text,
                 out |-> parsePrefix(text)]
  /\ UNCHANGED <<addr, pfx, aport, ops, heap>>

NextValue ==
  \/ \E bits \in MaskBits : MaskTwice(bits)
  \/ \E bits \in PrefixBits : MaskedTwice(bits)
  \/ PreviousNext
  \/ NextPrevious
  \/ \E other \in ValueAddrs : Compare(other)
  \/ Classify
  \/ \E bits \in PrefixBits : FromAndParsePrefix(bits)

SpecValue == InitValue /\ [][NextValue]_vars

(***************************************************************************)
(* Properties of the value operations (SpecValue)                          *)
(***************************************************************************)
\* C11: masking is idempotent: for every valid address a and every b in
\* 0..bitLength(a), a.mask(b).mask(b) has the same bytes and zone as
\* a.mask(b); likewise p.masked().masked() equals p.masked() for every valid
\* prefix p.
C11_MaskIdempotent ==
  /\ (/\ last.op = "mask.mask"
      /\ Address_isValid(last.src)
      /\ last.bits >= 0 /\ last.bits <= bitLength(last.src))
     => /\ last.once.ok /\ last.out.ok
        /\ toByteArray(last.out.val) = toByteArray(last.once.val)
        /\ getZone(last.out.val) = getZone(last.once.val)
  /\ (last.op = "masked.masked" /\ AddressPrefix_isValid(last.src))
     => /\ toByteArray(last.out.address) = toByteArray(last.once.address)
        /\ getZone(last.out.address) = getZone(last.once.address)
        /\ getBits(last.out) = getBits(last.once)

\* A zoned IPv6 address with host bits set was masked twice inside a byte
C11_Witness ==
  /\ last.op = "mask.mask"
  /\ toByteArray(last.src) = Zeros(14) \o <<255, 255>>
  /\ getZone(last.src) = <<"e", "t", "h", "0">>
  /\ last.bits = 127
  /\ last.out.ok
  /\ toByteArray(last.out.val) = Zeros(14) \o <<255, 254>>
  /\ getZone(last.out.val) = <<"e", "t", "h", "0">>

\* C12: for every valid address a (either family, with or without zone): if
\* a is not all-zero bytes then a.previous().next() has the same bytes and
\* zone as a; if a is not all-0xff bytes then a.next().previous() has the
\* same bytes and zone as a.
C12_NextPreviousInverse ==
  /\ (/\ last.op = "previous.next"
      /\ Address_isValid(last.src)
      /\ \E k \in 1..Len(toByteArray(last.src)) : toByteArray(last.src)[k] # 0)
     => /\ toByteArray(last.out) = toByteArray(last.src)
        /\ getZone(last.out) = getZone(last.src)
  /\ (/\ last.op = "next.previous"
      /\ Address_isValid(last.src)
      /\ \E k \in 1..Len(toByteArray(last.src)) : toByteArray(last.src)[k] # 255)
     => /\ toByteArray(last.out) = toByteArray(last.src)
        /\ getZone(last.out) = getZone(last.src)

\* next().previous() went through a carry over two bytes of a zoned address
C12_Witness ==
  /\ last.op = "next.previous"
  /\ toByteArray(last.src) = Zeros(14) \o <<255, 255>>
  /\ getZone(last.src) = <<"e", "t", "h", "0">>
  /\ toByteArray(last.once) = Zeros(13) \o <<1, 0, 0>>
  /\ last.out = last.src

\* C13: for every valid address a read as a big-endian unsigned integer v of
\* width L: a.next() is the same-width encoding of v + 1 when v < 2^L - 1 and
\* is the invalid address exactly when v = 2^L - 1; a.previous() is the
\* encoding of v - 1 when v > 0 and is the invalid address exactly when
\* v = 0; the result never wraps around and never changes family; next() and
\* previous() on an invalid address return an invalid address.
C13_NextPreviousArithmetic ==
  LET \* y is the encoding of x + 1 on the same number of base-256 digits
      IsSuccessor(x, y) ==
        /\ Len(y) = Len(x)
        /\ \E k \in 1..Len(x) :
             /\ \A j \in 1..(k - 1) : y[j] = x[j]
             /\ y[k] = x[k] + 1
             /\ \A j \in (k + 1)..Len(x) : x[j] = 255 /\ y[j] = 0
      src == toByteArray(last.src)
      res == toByteArray(last.once)
  IN /\ last.op = "next.previous"
        => IF ~Address_isValid(last.src) THEN ~Address_isValid(last.once)
           ELSE IF \A k \in 1..Len(src) : src[k] = 255
             THEN ~Address_isValid(last.once)
           ELSE Address_isValid(last.once) /\ IsSuccessor(src, res)
     /\ last.op = "previous.next"
        => IF ~Address_isValid(last.src) THEN ~Address_isValid(last.once)
           ELSE IF \A k \in 1..Len(src) : src[k] = 0
             THEN ~Address_isValid(last.once)
           ELSE Address_isValid(last.once) /\ IsSuccessor(res, src)

\* next() carried over six bytes of an IPv6 address
C13_Witness ==
  /\ last.op = "next.previous"
  /\ toByteArray(last.src) = Zeros(10) \o <<255, 255, 255, 255, 255, 255>>
  /\ toByteArray(last.once) = Zeros(9) \o <<1, 0, 0, 0, 0, 0, 0>>

\* C14: Address.compare(a, b) returns -1, 0 or +1 according to the unsigned
\* big-endian order of the bytes when a and b have the same length, and
\* whenever a and b have different byte lengths (zero-length sentinel,
\* 4-byte, 16-byte) the shorter one compares as less (-1) than the longer one.
C14_Compare ==
  last.op = "compare"
  => LET x == toByteArray(last.src)
         y == toByteArray(last.other)
         \* positions where two arrays of the same length differ
         Diff == {k \in 1..Len(x) : x[k] # y[k]}
         first == CHOOSE k \in Diff : \A j \in Diff : k <= j
     IN IF Len(x) = Len(y)
          THEN last.out = IF Diff = {} THEN 0
                          ELSE IF x[first] < y[first] THEN -1 ELSE 1
          ELSE ({Len(x), Len(y)} \subseteq {0, 4, 16})
                 => last.out = IF Len(x) < Len(y) THEN -1 ELSE 1

\* C15: for every valid address a, a.isGlobalUnicast() is true if and only
\* if none of isUnspecified, isLoopback, isMulticast, isLinkLocalUnicast and
\* isPrivate is true for a; for an invalid address it is false.
C15_GlobalUnicast ==
  last.op = "classify"
  => IF Address_isValid(last.src)
       THEN last.isGlobalUnicast
              = ~(\/ last.isUnspecified \/ last.isLoopback \/ last.isMulticast
                  \/ last.isLinkLocalUnicast \/ last.isPrivate)
       ELSE ~last.isGlobalUnicast

\* C16 as stated: for every valid address a and every integer bits outside
\* [0, bitLength(a)], AddressPrefix.from(a, bits) does not fail and yields a
\* prefix with getBits() = -1 and isValid() = false, whereas parsePrefix on
\* the text of the same address and the same bits fails with an
\* invalid-prefix-length error; for bits inside the range both yield a valid
\* prefix with getBits() = bits.
C16_Original ==
  (last.op = "from+parsePrefix" /\ Address_isValid(last.src))
  => IF last.bits < 0 \/ last.bits > bitLength(last.src)
       THEN /\ getBits(last.made) = -1
            /\ ~AddressPrefix_isValid(last.made)
            /\ ~last.out.ok
            /\ last.out.err = "Invalid prefix length"
       ELSE /\ getBits(last.made) = last.bits
            /\ AddressPrefix_isValid(last.made)
            /\ last.out.ok
            /\ getBits(last.out.val) = last.bits
            /\ AddressPrefix_isValid(last.out.val)

\* C16 amended: for every valid address a and every integer bits,
\* AddressPrefix.from(a, bits) does not fail and yields getBits() = -1 and
\* isValid() = false when bits is outside [0, bitLength(a)], and
\* getBits() = bits and isValid() = true when it is inside.  When the text
\* of a shows no zone (a 4-byte address, or a 16-byte address without a
\* zone), parsePrefix on the text of the same address and the same bits
\* fails with an invalid-prefix-length error for bits outside the range and
\* yields a valid prefix with getBits() = bits for bits inside; when the
\* text shows a zone (a 16-byte address with a zone), parsePrefix fails for
\* every bits.
C16_ConstructorVersusParse ==
  (/\ last.op = "from+parsePrefix"
   /\ Address_isValid(last.src))
  => LET outside == last.bits < 0 \/ last.bits > bitLength(last.src)
         zoneShown == isIPv6(last.src) /\ getZone(last.src) # << >>
     IN /\ IF outside
             THEN /\ getBits(last.made) = -1
                  /\ ~AddressPrefix_isValid(last.made)
             ELSE /\ getBits(last.made) = last.bits
                  /\ AddressPrefix_isValid(last.made)
        /\ IF zoneShown THEN ~last.out.ok
           ELSE IF outside
             THEN /\ ~last.out.ok
                  /\ last.out.err = "Invalid prefix length"
             ELSE /\ last.out.ok
                  /\ getBits(last.out.val) = last.bits
                  /\ AddressPrefix_isValid(last.out.val)

\* An IPv4 address with a length one above its width
C16_Witness ==
  /\ last.op = "from+parsePrefix"
  /\ isIPv4(last.src)
  /\ getZone(last.src) = << >>
  /\ last.bits = 33
  /\ getBits(last.made) = -1
  /\ ~last.out.ok
  /\ last.out.err = "Invalid prefix length"

(***************************************************************************)
(* SpecParse: the three parsers applied to one input text                  *)
(***************************************************************************)
\* Components of dotted-decimal inputs
V4Components ==
  { <<"0">>, <<"9">>, <<"2", "5", "5">>, <<"2", "5", "6">>, <<"0", "1", "0">>, << >>, <<"4", "a", "b", "c">>, <<"-", "1">>, <<"+", "1">>, <<" ", "1">>, <<"\f", "1">>, <<"", "1">> }

V4Texts ==
  {Join(<<c1, <<"2">>, <<"3">>, c4>>, <<".">>) : c1 \in V4Components, c4 \in V4Components}
    \cup { <<"1", ".", "2", ".", "3">>, <<"1", ".", "2", ".", "3", ".", "4", ".", "5">>, << >>, <<"1", "2", "3", "4">>, <<"1", ".", "2", ".", "3", ".", "4", "%", "e", "t", "h", "0">>, <<"1", ".", "2", ".", "3", ".", "4", " ">>,
           <<"1", ".", "2", ".", "3", ".", "2", "5", "6">>, <<"1", ".", "2", ".", "3", ".", "4", ".">> }

\* Components of a dotted quad embedded in an IPv6 text
QuadComponents ==
  { <<"1">>, <<"0">>, <<"2", "5", "5">>, <<"2", "5", "6">>, <<"0", "1">>, << >>, <<"4", "a">>, <<"+", "4">>, <<" ", "4">>, <<"\f", "4">>, <<"4", ":", "5">> }

V6Texts ==
  { <<":", ":">>, <<":", ":", "1">>, <<"1", ":", ":">>, <<"1", ":", "2", ":", "3", ":", "4", ":", "5", ":", "6", ":", "7", ":", "8">>, <<"1", ":", "2", ":", "3", ":", "4", ":", "5", ":", "6", ":", "7">>,
    <<"1", ":", "2", ":", "3", ":", "4", ":", "5", ":", "6", ":", "7", ":", "8", ":", "9">>, <<"1", ":", ":", "2", ":", ":", "3">>, <<":", ":", "1", ":", ":">>, <<":", ":", ":">>, <<":", "1">>, <<"1", ":">>,
    <<"1", ":", ":", ":", "2">>, <<"1", "2", "3", "4", "5", ":", ":">>, <<"g", ":", ":", "1">>, <<"1", ":", "2", ":", "3", ":", "4", ":", "5", ":", "6", ":", "7", ":", ":">>, <<":", ":", "2", ":", "3", ":", "4", ":", "5", ":", "6", ":", "7", ":", "8">>,
    <<"1", ":", ":", "3", ":", "4", ":", "5", ":", "6", ":", "7", ":", "8">>, <<"1", ":", "2", ":", "3", ":", "4", ":", ":", "5", ":", "6", ":", "7", ":", "8">>, <<"f", "e", "8", "0", ":", ":", "1", "%", "e", "t", "h", "0">>, <<"f", "e", "8", "0", ":", ":", "1", "%">>,
    <<":", ":", "%", "e", "t", "h", "0">>, <<"1", ":", "2", ":", "3", ":", "4", ":", "5", ":", "6", ":", "7", ":", "8", "%", "z">>, <<":", ":", "1", " ">>, <<" ", ":", ":", "1">>, <<":", ":", "1", "/", "6", "4">>,
    <<"A", "B", "C", "D", ":", "e", "f", "0", "1", ":", ":">>, <<"0", "0", "0", "1", ":", "0", "d", "b", "8", ":", ":">>, <<"1", ":", "2", ":", "3", ":", "4", ":", "5", ":", "6", ":", "7", ":", "1", ".", "2", ".", "3", ".", "4">>,
    <<"1", ":", "2", ":", "3", ":", "4", ":", "5", ":", "1", ".", "2", ".", "3", ".", "4">>, <<":", ":", "1", ".", "2", ".", "3", ".", "4">>, <<"1", ".", "2", ".", "3", ".", "4", ":", ":">>, <<":", ":", "1", ".", "2", ".", "3", ".", "4", ":", "5">>,
    <<":", ":", "f", "f", "f", "f", ":", "1", ".", "2", ".", "3">>, <<":", ":", "f", "f", "f", "f", ":", "1", ".", "2", ".", "3", ".", "4", ".", "5">>, <<":", ":", "f", "f", "f", "f", ":", "1", ".", "2", ".", "3", ".", "4", "%", "e", "t", "h", "0">>,
    <<":", ":", "f", "f", "f", "f", ":", "1", "a", ".", "2", ".", "3", ".", "4">>, <<":", ":", "f", "f", "f", "f", ":", "1", ".", "2", ".", "3", ".", "4", " ">>, <<"1", ":", ":", "f", "f", "f", "f", ":", "1", ".", "2", ".", "3", ".", "4", "a", "b", "c">> }
    \cup {p \o Join(<<c1, <<"2">>, <<"3">>, c4>>, <<".">>) :
            p \in { <<":", ":", "f", "f", "f", "f", ":">>, <<"1", ":", "2", ":", "3", ":", "4", ":", "5", ":", "6", ":">> },
            c1 \in QuadComponents, c4 \in QuadComponents}

PrefixTexts ==
  {a \o <<"/">> \o b :
     a \in { <<"1", ".", "2", ".", "3", ".", "4">>, <<":", ":", "1">>, <<"f", "e", "8", "0", ":", ":", "1", "%", "e", "t", "h", "0">>, <<"1", ".", "2", ".", "3">>, <<":", ":", "f", "f", "f", "f", ":", "1", ".", "2", ".", "3", ".", "4">> },
     b \in { <<"0">>, <<"2", "4">>, <<"3", "2">>, <<"3", "3">>, <<"1", "2", "8">>, <<"1", "2", "9">>, << >>, <<"-", "1">>, <<"+", "8">>, <<"2", "4", "a", "b", "c">>, <<" ", "8">>, <<"\f", "2", "4">>, <<" ", "8">>, <<"8", " ">>, <<"0", "8">>, <<"a">>, <<"2", "4", "/", "5">>, <<"8", ".", "5">> }}
    \cup { <<"/">>, <<"/", "2", "4">>, <<"1", ".", "2", ".", "3", ".", "4", "/", "/", "2", "4">>, <<"2", "0", "0", "1", ":", "d", "b", "8", ":", ":">> }

AddrPortTexts ==
  {h \o p :
     h \in { <<"1", ".", "2", ".", "3", ".", "4">>, <<"[", ":", ":", "1", "]">>, <<":", ":", "1">>, <<"[", "1", ".", "2", ".", "3", ".", "4", "]">>, <<"[", "f", "e", "8", "0", ":", ":", "1", "%", "e", "t", "h", "0", "]">>,
             <<"2", "0", "0", "1", ":", "d", "b", "8", ":", ":", "1">>, <<"[", ":", ":", "f", "f", "f", "f", ":", "1", ".", "2", ".", "3", ".", "4", "]">> },
     p \in { <<":", "8", "0">>, <<":", "0">>, <<":", "6", "5", "5", "3", "5">>, <<":", "6", "5", "5", "3", "6">>, <<":", "8", "0", ":", "9", "0">>, <<":", ":", "8", "0">>, <<":">>,
             << >>, <<":", "8", "0", ":">>, <<":", "-", "1">>, <<":", "+", "8", "0">>, <<":", "\f", "8", "0">>, <<":", "8", "0", "a", "b", "c">>, <<"8", "0">>, <<"x", "8", "0", ":", "1", ":", "2">> }}
    \cup { <<"[", ":", ":", "1">>, <<":", ":", "1", "]", ":", "8", "0">>, <<"[", "]", ":", "8", "0">>, <<":", "8", "0">>, <<"a", ":", "b", ":", "c">>, <<"[", ":", ":", "1", "]", "]", ":", "8", "0">> }

ParseTexts == V4Texts \cup V6Texts \cup PrefixTexts \cup AddrPortTexts

\* The text is chosen; no parser has been called yet
InitParse ==
  /\ addr = InvalidAddress
  /\ pfx = EmptyPrefix
  /\ aport = EmptyPort
  /\ last \in {[op |-> "text", text |-> t] : t \in ParseTexts}
  /\ ops = 0
  /\ heap = EmptyHeap

\* Address.parseAddress(text)
ParseAddressText ==
  /\ last.op = "text"
  /\ last' = [op |-> "parseAddress", text |-> last.text, out |-> parseAddress(last.text)]
  /\ UNCHANGED <<addr, pfx, aport, ops, heap>>

\* AddressPrefix.parsePrefix(text)
ParsePrefixText ==
  /\ last.op = "text"
  /\ last' = [op |-> "parsePrefix", text |-> last.text, out |-> parsePrefix(last.text)]
  /\ UNCHANGED <<addr, pfx, aport, ops, heap>>

\* AddressPort.parseAddrPort(text)
ParseAddrPortText ==
  /\ last.op = "text"
  /\ last' = [op |-> "parseAddrPort", text |-> last.text, out |-> parseAddrPort(last.text)]
  /\ UNCHANGED <<addr, pfx, aport, ops, heap>>

NextParse ==
  \/ ParseAddressText
  \/ ParsePrefixText
  \/ ParseAddrPortText

SpecParse == InitParse /\ [][NextParse]_vars

(***************************************************************************)
(* Properties of the parsers (SpecParse)                                   *)
(***************************************************************************)
\* C17: for an input containing no ':', Address.parseAddress succeeds if and
\* only if the input is exactly four '.'-separated components, each a
\* non-empty string of decimal digits (leading zeros allowed, read as
\* decimal) with value in 0..255, and then returns the 4-byte address of
\* those values; every other such input is rejected with an error.
C17_IPv4Grammar ==
  (last.op = "parseAddress" /\ ~Includes(last.text, ":"))
  => LET parts == Split(last.text, ".")
         IsOctet(p) == /\ Len(p) >= 1
                       /\ \A k \in 1..Len(p) : IsDigit(p[k])
                       /\ ParseDigits(p, 1, 0) <= 255
         IsDottedQuad == Len(parts) = 4 /\ \A i \in 1..4 : IsOctet(parts[i])
     IN /\ last.out.ok = IsDottedQuad
        /\ last.out.ok
           => /\ toByteArray(last.out.val) = [i \in 1..4 |-> ParseDigits(parts[i], 1, 0)]
              /\ getZone(last.out.val) = << >>

\* C18: for an input containing ':', Address.parseAddress succeeds only if
\* the whole text before an optional non-empty '%zone' is consumed by the
\* IPv6 grammar: hextets of 1-4 hex digits separated by ':', at most one '::'
\* which stands for at least one zero hextet, eight hextets in total after
\* expansion, and optionally a final embedded dotted quad of exactly four
\* decimal octets in 0..255 without leading zeros occupying the last four
\* bytes with nothing after it.
C18_IPv6Grammar ==
  (last.op = "parseAddress" /\ Includes(last.text, ":") /\ last.out.ok)
  => LET s == last.text
         z == IndexOf(s, "%")
         body == IF z = -1 THEN s ELSE SubSeq(s, 1, z)
         zoneOk == z = -1 \/ z + 1 < Len(s)
         doubles == {k \in 1..(Len(body) - 1) : body[k] = ":" /\ body[k + 1] = ":"}
         IsHextet(f) == Len(f) \in 1..4 /\ \A k \in 1..Len(f) : IsHexDigit(f[k])
         IsQuadOctet(p) == /\ Len(p) \in 1..3
                           /\ \A k \in 1..Len(p) : IsDigit(p[k])
                           /\ Len(p) > 1 => p[1] # "0"
                           /\ ParseDigits(p, 1, 0) <= 255
         IsQuad(f) == LET ps == Split(f, ".")
                      IN Len(ps) = 4 /\ \A i \in 1..4 : IsQuadOctet(ps[i])
         \* t is a ':'-separated list of hextets, the last of which may be a
         \* dotted quad when quad is TRUE
         IsList(t, quad) ==
           LET fs == Split(t, ":")
           IN /\ \A k \in 1..(Len(fs) - 1) : IsHextet(fs[k])
              /\ IsHextet(fs[Len(fs)]) \/ (quad /\ IsQuad(fs[Len(fs)]))
         \* the number of 16-bit groups of such a list
         Groups(t) ==
           LET fs == Split(t, ":")
           IN IF t = << >> THEN 0
              ELSE Len(fs) + (IF IsQuad(fs[Len(fs)]) THEN 1 ELSE 0)
         d == CHOOSE k \in doubles : TRUE
         left == SubSeq(body, 1, d - 1)
         right == SubSeq(body, d + 2, Len(body))
     IN /\ zoneOk
        /\ IF doubles = {}
             THEN IsList(body, TRUE) /\ Groups(body) = 8
           ELSE /\ Cardinality(doubles) = 1
                /\ left = << >> \/ IsList(left, FALSE)
                /\ right = << >> \/ IsList(right, TRUE)
                /\ Groups(left) + Groups(right) <= 7

\* C19: AddressPrefix.parsePrefix succeeds only on strings of the form
\* address/bits: exactly one '/', the part before it accepted by
\* parseAddress and carrying no zone, the part after it a non-empty string of
\* decimal digits with value in 0..bitLength(address) and nothing else;
\* every other string is rejected with an error.
C19_PrefixGrammar ==
  (last.op = "parsePrefix" /\ last.out.ok)
  => LET parts == Split(last.text, "/")
         address == parseAddress(parts[1])
         bitsPart == parts[2]
     IN /\ Len(parts) = 2
        /\ address.ok
        /\ getZone(address.val) = << >>
        /\ Len(bitsPart) >= 1
        /\ \A k \in 1..Len(bitsPart) : IsDigit(bitsPart[k])
        /\ ParseDigits(bitsPart, 1, 0) <= bitLength(address.val)

\* C20: AddressPort.parseAddrPort fails for every input in which more than
\* one ':' occurs outside a '[...]' bracket pair; in particular an IPv6
\* literal without brackets (e.g. the shape ::1:80) is always rejected.
C20_UnbracketedColons ==
  last.op = "parseAddrPort"
  => LET s == last.text
         Bracketed(k) == /\ \E i \in 1..(k - 1) : s[i] = "["
                         /\ \E j \in (k + 1)..Len(s) : s[j] = "]"
         outside == {k \in 1..Len(s) : s[k] = ":" /\ ~Bracketed(k)}
     IN Cardinality(outside) > 1 => ~last.out.ok

\* C21: AddressPort.parseAddrPort succeeds only on strings of the shape
\* ip:port or [ip]:port, where ip is accepted by parseAddress, the closing
\* bracket (if any) is immediately followed by ':', and port is a non-empty
\* string of decimal digits with value in 0..65535 with nothing after it; the
\* result then has getPort() equal to that value.
C21_AddrPortGrammar ==
  (last.op = "parseAddrPort" /\ last.out.ok)
  => LET s == last.text
         bracketed == Len(s) >= 1 /\ s[1] = "["
         closing == IndexOf(s, "]") + 1
         colon == IF bracketed THEN closing + 1 ELSE LastIndexOf(s, ":") + 1
         ip == IF bracketed THEN SubSeq(s, 2, closing - 1) ELSE SubSeq(s, 1, colon - 1)
         port == SubSeq(s, colon + 1, Len(s))
     IN /\ bracketed => closing >= 2
        /\ colon >= 1 /\ colon <= Len(s) /\ s[colon] = ":"
        /\ parseAddress(ip).ok
        /\ Len(port) >= 1
        /\ \A k \in 1..Len(port) : IsDigit(port[k])
        /\ ParseDigits(port, 1, 0) <= 65535
        /\ getPort(last.out.val) = ParseDigits(port, 1, 0)

\* C22: for every 16-byte address Address.toString emits, when the address is
\* not IPv4-mapped, the eight hextets in lowercase hexadecimal without leading
\* zeros joined by ':' with exactly the first run of one or more zero hextets
\* replaced by '::' (later zero hextets stay '0'), and when it is IPv4-mapped
\* the text ::ffff:a.b.c.d; a non-empty zone is appended as %zone.
C22_ToString ==
  (last.op = "Address.textRoundTrip" /\ Len(last.src.bytes) = 16)
  => LET a == last.src
         h == [k \in 1..8 |-> a.bytes[2 * k - 1] * 256 + a.bytes[2 * k]]
         mapped == (\A k \in 1..5 : h[k] = 0) /\ h[6] = 65535
         zeros == {k \in 1..8 : h[k] = 0}
         hex(lo, hi) == Join([k \in 1..(hi - lo + 1) |-> NatToHex(h[lo + k - 1])], <<":">>)
         first == CHOOSE k \in zeros : \A j \in zeros : k <= j
         ends == {e \in first..8 : \A j \in first..e : h[j] = 0}
         end == CHOOSE e \in ends : \A j \in ends : j <= e
         body == IF mapped
                   THEN <<":", ":", "f", "f", "f", "f", ":">>
                          \o Join([k \in 1..4 |-> NatToDec(a.bytes[12 + k])], <<".">>)
                 ELSE IF zeros = {} THEN hex(1, 8)
                 ELSE hex(1, first - 1) \o <<":", ":">> \o hex(end + 1, 8)
         suffix == IF a.zone = << >> THEN << >> ELSE <<"%">> \o a.zone
     IN /\ last.text = body \o suffix
        /\ ~mapped =>
             /\ \A k \in 1..Len(body) :
                  body[k] = ":" \/ \E d \in 1..16 : LowerHexChars[d] = body[k]
             /\ \A k \in 1..Len(body) :
                  (body[k] = "0" /\ (k = 1 \/ body[k - 1] = ":"))
                    => (k = Len(body) \/ body[k + 1] = ":")

\* toString has rendered abc:0:abc:0:0:0:abc:abc (two runs of zero hextets,
\* the first one of length one) with a zone
C22_Witness ==
  /\ last.op = "Address.textRoundTrip"
  /\ last.src.bytes = <<10, 188, 0, 0, 10, 188, 0, 0, 0, 0, 0, 0, 10, 188, 10, 188>>
  /\ last.src.zone = <<"e", "t", "h", "0">>
  /\ last.text = <<"a", "b", "c", ":", ":", "a", "b", "c", ":", "0", ":", "0", ":", "0", ":", "a", "b", "c", ":", "a", "b", "c", "%", "e", "t", "h", "0">>

\* C23: for any Address target in any prior state and any buffer,
\* unmarshalBinary succeeds exactly when the buffer has 4 or 16 bytes, and
\* after a success the target has the same bytes, the same getZone() and the
\* same toString() as a fresh Address decoded from the same buffer.
C23_UnmarshalBinaryLikeFresh ==
  (last.op = "Address.unmarshalBinary")
  => LET fresh == Address_unmarshalBinary(InvalidAddress, last.buffer).obj
     IN /\ last.out.ok <=> Len(last.buffer) \in {4, 16}
        /\ last.out.ok =>
             /\ toByteArray(addr) = toByteArray(fresh)
             /\ getZone(addr) = getZone(fresh)
             /\ Address_toString(addr) = Address_toString(fresh)

\* C24: marshalBinary of a valid AddressPrefix is the raw address bytes
\* followed by one byte holding the prefix length (5 or 17 bytes); marshalBinary
\* of a valid AddressPort whose port is in 0..65535 is the raw address bytes
\* followed by port mod 256 and port div 256 (6 or 18 bytes), and
\* unmarshalBinary of that buffer restores the port.
C24_BinaryLayout ==
  /\ (last.op = "AddressPrefix.binaryRoundTrip" /\ AddressPrefix_isValid(last.src))
     => LET raw == toByteArray(last.src.address)
            n == Len(raw)
        IN /\ last.buffer.ok
           /\ Len(last.buffer.val) = n + 1
           /\ Len(last.buffer.val) \in {5, 17}
           /\ \A k \in 1..n : last.buffer.val[k] = raw[k]
           /\ last.buffer.val[n + 1] = getBits(last.src)
  /\ (last.op = "AddressPort.binaryRoundTrip" /\ AddressPort_isValid(last.src)
        /\ getPort(last.src) \in 0..65535)
     => LET raw == toByteArray(last.src.ip)
            n == Len(raw)
        IN /\ Len(last.buffer) = n + 2
           /\ Len(last.buffer) \in {6, 18}
           /\ \A k \in 1..n : last.buffer[k] = raw[k]
           /\ last.buffer[n + 1] = getPort(last.src) % 256
           /\ last.buffer[n + 2] = getPort(last.src) \div 256
           /\ last.out.ok
           /\ getPort(last.out.obj) = getPort(last.src)

\* A valid IPv6 AddressPort with port 256 has been encoded into 18 bytes
\* ending in 0, 1 and decoded again
C24_Witness ==
  /\ last.op = "AddressPort.binaryRoundTrip"
  /\ isIPv6(last.src.ip)
  /\ getPort(last.src) = 256
  /\ Len(last.buffer) = 18
  /\ last.buffer[17] = 0 /\ last.buffer[18] = 1
  /\ last.out.ok

\* C25: on an invalid value the degraded-answer methods never fail
\* (Address.toString returns the sentinel text "invalid IP",
\* AddressPrefix.toString and AddressPort.toString return the empty string,
\* marshalText of an invalid AddressPrefix or AddressPort returns zero bytes),
\* whereas marshalBinary of an invalid Address, of an invalid AddressPrefix and
\* of an invalid AddressPort and getRanges of an invalid AddressPrefix fail.
C25_DegradedOrFail ==
  (last.op = "marshal")
  => /\ ~Address_isValid(last.addr)
          => /\ last.addrString = Ok(<<"i", "n", "v", "a", "l", "i", "d", " ", "I", "P">>)
             /\ ~last.addrBinary.ok
     /\ ~AddressPrefix_isValid(last.pfx)
          => /\ last.pfxString = Ok(<< >>)
             /\ last.pfxText = Ok(<< >>)
             /\ ~last.pfxBinary.ok
             /\ ~last.pfxRanges.ok
     /\ ~AddressPort_isValid(last.aport)
          => /\ last.portString = Ok(<< >>)
             /\ last.portText = Ok(<< >>)
             /\ ~last.portBinary.ok

(***************************************************************************)
(* Object identity.  An Address object holds a reference to a Uint8Array   *)
(* and a zone; heap.arrays[i] is the content of array i, heap.objs[o] the  *)
(* fields of Address object o, heap.prefix the fields of one AddressPrefix *)
(* object.  Array 1 is the array the driver built object 1 from.           *)
(***************************************************************************)

\* new Uint8Array(...) / slice(): a new array, its id is Len(h.arrays)
AllocArray(h, bytes) == [h EXCEPT !.arrays = Append(@, bytes)]

\* new Address(addressBytes, zone): stores the array reference, no copy
AllocAddress(h, arrayId, zone) ==
  [h EXCEPT !.objs = Append(@, [addressBytes |-> arrayId, zone |-> zone])]

\* The observable state of Address object o
Deref(h, o) == Address(h.arrays[h.objs[o].addressBytes], h.objs[o].zone)

\* The observable state of the AddressPrefix object
DerefPrefix(h) == [address |-> Deref(h, h.prefix.address), bits |-> h.prefix.bits]

\* A new Address object around a new array that holds the bytes of value v
AllocValue(h, v) ==
  LET h1 == AllocArray(h, v.bytes)
  IN [heap |-> AllocAddress(h1, Len(h1.arrays), v.zone), ref |-> Len(h.objs) + 1]

\* o.withZone(zone): `this` unless IPv6, else a new object on the same array
Heap_withZone(h, o, zone) ==
  IF ~isIPv6(Deref(h, o)) THEN [heap |-> h, ref |-> o]
  ELSE [heap |-> AllocAddress(h, h.objs[o].addressBytes, zone), ref |-> Len(h.objs) + 1]

\* o.unmap(): `this` unless IPv4-mapped, else a new object on a slice
Heap_unmap(h, o) ==
  IF isIPv4MappedIPv6(Deref(h, o))
    THEN AllocValue(h, Address(SubSeq(Deref(h, o).bytes, 13, 16), << >>))
    ELSE [heap |-> h, ref |-> o]

\* o.unmarshalBinary(buffer): this.addressBytes = buffer.slice()
Heap_unmarshalBinary(h, o, buffer) ==
  IF Len(buffer) = 4 \/ Len(buffer) = 16
    THEN LET h1 == AllocArray(h, buffer)
         IN [ok |-> TRUE, err |-> "",
             heap |-> [h1 EXCEPT !.objs[o].addressBytes = Len(h1.arrays)]]
    ELSE [ok |-> FALSE, err |-> "Invalid binary address format.", heap |-> h]

\* o.unmarshalText(text): the fields of the parsed address are taken over
Heap_unmarshalText(h, o, text) ==
  LET parsed == parseAddress(text)
  IN IF ~parsed.ok THEN [ok |-> FALSE, err |-> parsed.err, heap |-> h]
     ELSE LET h1 == AllocArray(h, parsed.val.bytes)
          IN [ok |-> TRUE, err |-> "",
              heap |-> [h1 EXCEPT !.objs[o] = [addressBytes |-> Len(h1.arrays),
                                               zone |-> parsed.val.zone]]]

\* const bytes = new Uint8Array(b); const a = new Address(bytes, zone);
\* const p = new AddressPrefix(Address.parseAddress("10.1.2.3"), 8)
InitAlias ==
  /\ heap \in { [arrays |-> <<b, <<10, 1, 2, 3>> >>,
                 objs |-> << [addressBytes |-> 1, zone |-> z],
                             [addressBytes |-> 2, zone |-> << >>] >>,
                 prefix |-> [address |-> 2, bits |-> 8]] :
                b \in { <<1, 2, 3, 4>>,
                        <<0, 0, 0, 0, 0, 0, 0, 0, 0, 0, 255, 255, 1, 2, 3, 4>>,
                        <<254, 128, 0, 0, 0, 0, 0, 0, 0, 0, 0, 0, 0, 0, 0, 1>> },
                z \in {<< >>, <<"e", "t", "h", "0">>} }
  /\ addr = Deref(heap, 1)
  /\ pfx = DerefPrefix(heap)
  /\ aport = EmptyPort
  /\ last = [op |-> "new"]
  /\ ops = 0

\* What every step of SpecAlias does after the call: the driver looks at its
\* address and its prefix again
Observe(h, call) ==
  /\ heap' = h
  /\ addr' = Deref(h, 1)
  /\ pfx' = DerefPrefix(h)
  /\ last' = call @@ [before |-> [addr |-> addr, pfx |-> pfx]]
  /\ ops' = ops + 1
  /\ UNCHANGED aport

\* r = a.withZone(zone)
AliasWithZone(zone) ==
  /\ ops < MaxOps
  /\ LET r == Heap_withZone(heap, 1, zone)
     IN Observe(r.heap, [op |-> "withZone", ref |-> r.ref])

\* r = a.unmap()
AliasUnmap ==
  /\ ops < MaxOps
  /\ LET r == Heap_unmap(heap, 1)
     IN Observe(r.heap, [op |-> "unmap", ref |-> r.ref])

\* r = p.getAddress()
AliasGetAddress ==
  /\ ops < MaxOps
  /\ Observe(heap, [op |-> "getAddress", ref |-> heap.prefix.address])

\* r = a.mask(bits), a new object unless the call throws
AliasMask(bits) ==
  /\ ops < MaxOps
  /\ LET m == mask(Deref(heap, 1), bits)
     IN IF m.ok THEN Observe(AllocValue(heap, m.val).heap, [op |-> "mask", ok |-> TRUE])
        ELSE Observe(heap, [op |-> "mask", ok |-> FALSE])

\* r = a.next()
AliasNext ==
  /\ ops < MaxOps
  /\ Observe(AllocValue(heap, next(Deref(heap, 1))).heap, [op |-> "next"])

\* r = a.previous()
AliasPrevious ==
  /\ ops < MaxOps
  /\ Observe(AllocValue(heap, previous(Deref(heap, 1))).heap, [op |-> "previous"])

\* t = a.toByteArray(); t[0] = v: the write goes to the returned copy
AliasToByteArray(v) ==
  /\ ops < MaxOps
  /\ LET h1 == AllocArray(heap, toByteArray(Deref(heap, 1)))
         t == Len(h1.arrays)
     IN Observe(IF Len(h1.arrays[t]) > 0 THEN [h1 EXCEPT !.arrays[t][1] = v] ELSE h1,
                [op |-> "toByteArray"])

\* r.unmarshalBinary(buffer) on the value r returned by the previous call
ReturnedUnmarshalBinary(buffer) ==
  /\ ops < MaxOps
  /\ last.op \in {"withZone", "unmap", "getAddress"}
  /\ LET r == Heap_unmarshalBinary(heap, last.ref, buffer)
     IN Observe(r.heap, [op |-> "returned.unmarshalBinary", via |-> last.op,
                         ref |-> last.ref, buffer |-> buffer, ok |-> r.ok])

\* r.unmarshalText(text) on the value r returned by the previous call
ReturnedUnmarshalText(text) ==
  /\ ops < MaxOps
  /\ last.op \in {"withZone", "unmap", "getAddress"}
  /\ LET r == Heap_unmarshalText(heap, last.ref, text)
     IN Observe(r.heap, [op |-> "returned.unmarshalText", via |-> last.op,
                         ref |-> last.ref, text |-> text, ok |-> r.ok])

\* bytes[i] = v: the driver writes to the array it built a from
WriteArray(i, v) ==
  /\ ops < MaxOps
  /\ i <= Len(heap.arrays[1])
  /\ Observe([heap EXCEPT !.arrays[1][i] = v], [op |-> "write", index |-> i, value |-> v])

\* a.unmarshalBinary(buffer): the sanctioned decode-into on a itself
AliasUnmarshalBinary(buffer) ==
  /\ ops < MaxOps
  /\ LET r == Heap_unmarshalBinary(heap, 1, buffer)
     IN Observe(r.heap, [op |-> "Address.unmarshalBinary", buffer |-> buffer, ok |-> r.ok])

NextAlias ==
  \/ \E zone \in {<< >>, <<"e", "t", "h", "0">>} : AliasWithZone(zone)
  \/ AliasUnmap
  \/ AliasGetAddress
  \/ \E bits \in {8, 200} : AliasMask(bits)
  \/ AliasNext
  \/ AliasPrevious
  \/ AliasToByteArray(7)
  \/ \E buffer \in {<<9, 9, 9, 9>>, <<1, 2, 3>>} : ReturnedUnmarshalBinary(buffer)
  \/ \E text \in {<<":", ":", "1", "%", "l", "o">>, <<"1", ".", "2", ".", "3">>} : ReturnedUnmarshalText(text)
  \/ \E i \in {1, 4} : WriteArray(i, 7)
  \/ \E buffer \in {<<9, 9, 9, 9>>, <<1, 2, 3>>} : AliasUnmarshalBinary(buffer)

SpecAlias == InitAlias /\ [][NextAlias]_vars

\* C26: the observable state (bytes, zone, bits) of an existing Address or
\* AddressPrefix changes only when unmarshalBinary or unmarshalText is invoked
\* on that very value: not by a transformation or accessor (withZone, unmap,
\* getAddress, mask, next, previous, toByteArray), not by a decode-into call
\* made on a value returned by withZone, unmap or getAddress, and not by a
\* later write to the byte array the Address was constructed from.
C26_Immutable ==
  (last.op \in {"withZone", "unmap", "getAddress", "mask", "next", "previous",
                "toByteArray", "returned.unmarshalBinary",
                "returned.unmarshalText", "write"})
  => /\ addr = last.before.addr
     /\ pfx = last.before.pfx

\* C27: in every reachable state of an AddressPrefix (after construction with
\* any address and any integer bits and after any sequence of unmarshalBinary
\* calls, failing ones included), whenever isValid() is false getBits()
\* returns -1.
C27_InvalidPrefixBits == ~AddressPrefix_isValid(pfx) => getBits(pfx) = -1

\* C28: decode-into is atomic on failure: whenever unmarshalBinary or
\* unmarshalText fails on an Address, an AddressPrefix or an AddressPort, the
\* target's observable state (address bytes, zone, bits, port, and with them
\* isValid()) is exactly what it was before the call.
C28_AtomicOnFailure ==
  [][ (/\ last'.op \in {"Address.unmarshalBinary", "Address.unmarshalText",
                        "AddressPrefix.unmarshalBinary", "AddressPrefix.unmarshalText",
                        "AddressPort.unmarshalBinary", "AddressPort.unmarshalText"}
       /\ ~last'.out.ok)
      => (addr' = addr /\ pfx' = pfx /\ aport' = aport) ]_vars

\* C29: for every invalid Address (byte length neither 4 nor 16, in
\* particular the zero-length sentinel) every classification predicate
\* returns false: isUnspecified, isLoopback, isMulticast, isPrivate,
\* isLinkLocalUnicast, isLinkLocalMulticast, isInterfaceLocalMulticast,
\* isGlobalUnicast and isIPv4MappedIPv6.
C29_InvalidIsNothing ==
  (last.op = "classify" /\ ~Address_isValid(last.src))
  => /\ ~last.isUnspecified
     /\ ~last.isLoopback
     /\ ~last.isMulticast
     /\ ~last.isPrivate
     /\ ~last.isLinkLocalUnicast
     /\ ~last.isLinkLocalMulticast
     /\ ~last.isInterfaceLocalMulticast
     /\ ~last.isGlobalUnicast
     /\ ~last.isIPv4MappedIPv6

\* C30: containment agrees with the computed range: for every valid prefix p
\* and every valid zone-less address ip of the same family, p.contains(ip) is
\* true if and only if first.compare(ip) <= 0 and ip.compare(last) <= 0, where
\* first and last are the addresses denoted by p.getRanges().from and .to; for
\* every address ip of the other family p.contains(ip) is false.
C30_ContainsIffInRange ==
  (last.op = "contains+getRanges" /\ AddressPrefix_isValid(last.src))
  => /\ (/\ Address_isValid(last.ip)
         /\ getZone(last.ip) = << >>
         /\ bitLength(last.ip) = bitLength(last.src.address))
        => /\ last.ranges.ok /\ last.first.ok /\ last.end.ok
           /\ last.out <=> (last.lower <= 0 /\ last.upper <= 0)
     /\ bitLength(last.ip) # bitLength(last.src.address) => ~last.out

\* contains() has said no about the address just above the end of the range
\* of a prefix that ends inside a byte, and yes about the end itself
C30_Witness ==
  /\ last.op = "contains+getRanges"
  /\ getBits(last.src) = 25
  /\ last.ranges.ok
  /\ \/ last.out /\ last.upper = 0 /\ last.lower = -1
     \/ ~last.out /\ last.upper = 1 /\ last.lower = -1

=============================================================================
